---- MODULE Spec2Model ----
(***************************************************************************)
(* Multi-stage GraphQL executor with deferred (backend-evaluated) values.  *)
(*                                                                         *)
(* Two schedulers of the repository are modelled side by side:             *)
(*   - the five-queue scheduler createExecuteFn (src/unnamed/part_000),    *)
(*     with the Fauna v10 backend of src/backends/faunadbV10.ts and the    *)
(*     path-expand engine of src/expand.ts;                                *)
(*   - the class Execution (src/executor.ts, lines 261-1246).              *)
(* The variable impl says which of the two a behaviour runs.               *)
(*                                                                         *)
(* JSON values, deferred expressions, types and paths are tagged records.  *)
(* List indices inside paths are the strings "0", "1", ...; the list       *)
(* placeholder is the string "[]", as in the source.                       *)
(***************************************************************************)
EXTENDS Integers, Sequences, FiniteSets, TLC

VARIABLES
    impl,            \* "five" (part_000) or "exec" (executor.ts Execution)
    sc,              \* the schema's field types and the resolvers' behaviours
    pc,              \* position of the scheduler
    step1_resolve,   \* queue of FieldToResolve
    step2_discriminate, \* five: queue of FieldToDiscriminate
    step3_validate,  \* five: queue of FieldToValidate
    step4_restage,   \* five: step4_restage; exec: #step3_restage
    step5_revalidate, \* five: queue of FieldToRevalidate
    deferredExprs,   \* five: deferredExprs; exec: #step2_evaluate
    containers,      \* the backend's dataContainer closures made by expandChildren
    deferredValues,  \* what the last batch call returned
    completedFields, \* five: completed pieces
    unvalidatedResult, \* exec: #unvalidatedResult
    resultErrors,    \* the error accumulator
    result,          \* what execute returned (or that its promise rejected)
    batches,         \* history: number of resolveDeferredValues calls
    thrown,          \* history: the raw error of the failed batch, or "none"
    calls,           \* history: the resolver invocations, see CallRecord
    restaged,        \* history: output paths of the fields sent to restage
    called,          \* the library function under check and its arguments
    returned         \* what that function returned or threw

vars == <<impl, sc, pc, step1_resolve, step2_discriminate, step3_validate,
          step4_restage, step5_revalidate, deferredExprs, containers,
          deferredValues, completedFields, unvalidatedResult, resultErrors,
          result, batches, thrown, calls, restaged, called, returned>>

\* the variables of one execution
execVars == <<impl, sc, pc, step1_resolve, step2_discriminate, step3_validate,
              step4_restage, step5_revalidate, deferredExprs, containers,
              deferredValues, completedFields, unvalidatedResult, resultErrors,
              result, batches, thrown, calls, restaged>>

-----------------------------------------------------------------------------
(* Bounds of the model *)

\* number of elements of the list values the resolvers return
ListLen == 2

-----------------------------------------------------------------------------
(* JSON values *)

Null == [k |-> "null"]
Undef == [k |-> "undef"]
IntV(n) == [k |-> "int", v |-> n]
StrV(s) == [k |-> "str", v |-> s]
\* an object is the sequence of its <<key, value>> entries in insertion order
ObjV(e) == [k |-> "obj", e |-> e]
ListV(e) == [k |-> "list", e |-> e]
\* the backend's error annotation {"@error": message}
ErrV(m) == ObjV(<< <<"@error", StrV(m)>> >>)

isNullValue(v) == v.k \in {"null", "undef"}

\* JavaScript falsiness of a JSON value
Falsy(v) == isNullValue(v) \/ v = IntV(0) \/ v = StrV("")

Digits == <<"0", "1", "2", "3", "4", "5", "6", "7", "8", "9", "10", "11", "12",
           "13", "14", "15", "16", "17", "18", "19">>
IdxKey(i) == Digits[i + 1]
IsIdx(key) == \E i \in 1..Len(Digits) : Digits[i] = key
IdxOf(key) == (CHOOSE i \in 1..Len(Digits) : Digits[i] = key) - 1
LIST_PLACEHOLDER == "[]"

HasKey(o, key) == o.k = "obj" /\ \E i \in 1..Len(o.e) : o.e[i][1] = key
KeyPos(o, key) == CHOOSE i \in 1..Len(o.e) : o.e[i][1] = key
Keys(o) == [i \in 1..Len(o.e) |-> o.e[i][1]]

\* JS o?.[key]
At(o, key) ==
    IF o.k = "obj"
    THEN IF HasKey(o, key) THEN o.e[KeyPos(o, key)][2] ELSE Undef
    ELSE IF o.k = "list" /\ IsIdx(key) /\ IdxOf(key) < Len(o.e)
         THEN o.e[IdxOf(key) + 1]
         ELSE Undef

\* JS o[key] = v on an object: an existing key keeps its position
Put(o, key, v) ==
    IF HasKey(o, key)
    THEN ObjV([o.e EXCEPT ![KeyPos(o, key)] = <<key, v>>])
    ELSE ObjV(Append(o.e, <<key, v>>))

getErrorMessage(v) ==
    IF HasKey(v, "@error") /\ ~isNullValue(At(v, "@error"))
    THEN At(v, "@error")
    ELSE Null

hasErrorMessage(v) == getErrorMessage(v) # Null

-----------------------------------------------------------------------------
(* Types, schema and document *)

Named(n) == [k |-> "named", n |-> n]
NonNullT(t) == [k |-> "nonnull", of |-> t]
ListT(t) == [k |-> "list", of |-> t]

isNonNullType(t) == t.k = "nonnull"
isListType(t) == t.k = "list"
getNullableType(t) == IF isNonNullType(t) THEN t.of ELSE t

RECURSIVE getNamedType(_)
getNamedType(t) == IF t.k = "named" THEN t ELSE getNamedType(t.of)

isLeafType(t) == t.k = "named" /\ t.n \in {"Int", "String"}
isObjectType(t) == t.k = "named" /\ t.n \in {"Query", "Obj", "Sub", "Foo", "Hello"}
\* union FooHello = Foo | Hello; interface Greeting, which Foo and Hello implement
isAbstractType(t) == t.k = "named" /\ t.n \in {"FooHello", "Greeting"}

IntT == Named("Int")
StringT == Named("String")
ObjT == Named("Obj")
SubT == Named("Sub")

\* the output type of each field definition; Query.a and Obj.x vary
FieldType(field) ==
    CASE field = "a" -> sc.ta
      [] field = "x" -> sc.tx
      [] field = "__typename" -> NonNullT(StringT)
      [] OTHER -> IntT

\* the selection set of a field node of the document { a { x { p } y } b },
\* cut to the selections the field types allow
SelectionOf(field) ==
    CASE field = "a" /\ getNamedType(sc.ta) = ObjT -> <<"x", "y">>
      [] field = "x" /\ getNamedType(sc.tx) = SubT -> <<"p">>
      [] OTHER -> <<>>

RootSelection == <<"a", "b">>

fieldNodeKey(node) == node

-----------------------------------------------------------------------------
(* Sequences as JavaScript arrays *)

Min(a, b) == IF a < b THEN a ELSE b
Max(a, b) == IF a > b THEN a ELSE b

\* Array.prototype.slice(from, to) with 0-based, clamped, non-negative bounds
Slice(s, from, to) ==
    LET f == Min(Max(from, 0), Len(s))
        t == Min(Max(to, 0), Len(s))
    IN IF t <= f THEN <<>> ELSE SubSeq(s, f + 1, t)

\* Array.prototype.indexOf(x, from): 0-based position or -1
IndexOf(s, x, from) ==
    IF \E i \in (Max(from, 0) + 1)..Len(s) : s[i] = x
    THEN (CHOOSE i \in (Max(from, 0) + 1)..Len(s) :
              s[i] = x /\ \A j \in (Max(from, 0) + 1)..(i - 1) : s[j] # x) - 1
    ELSE -1

Count(s, x) == Cardinality({i \in 1..Len(s) : s[i] = x})

Includes(s, x) == \E i \in 1..Len(s) : s[i] = x

RECURSIVE Flatten(_)
Flatten(ss) == IF ss = <<>> THEN <<>> ELSE Head(ss) \o Flatten(Tail(ss))

\* partition(arr, predicate) of utils: positions satisfying P first, the rest second
\* Arguments are passed by value, as in JavaScript: in an operator of the form
\*   F(pArg) == CHOOSE out \in {body : p \in {pArg}} : TRUE
\* pArg is evaluated once and body sees its value p; F(pArg) equals body
RECURSIVE SelectSeqIdx(_, _, _)
SelectSeqIdx(sArg, keepArg, i) ==
    CHOOSE out \in {
            IF i > Len(s) THEN <<>>
            ELSE (IF i \in keep THEN <<s[i]>> ELSE <<>>) \o SelectSeqIdx(s, keep, i + 1)
        : s \in {sArg}, keep \in {keepArg}} : TRUE

-----------------------------------------------------------------------------
(* Deferred expressions the backend builds, and wrapped values *)

\* fql`<literal>`: an expression that evaluates to v
DLit(v) == [k |-> "dlit", v |-> v]
\* fql([varName]): a reference to a variable bound by an enclosing composite
DVar(n) == [k |-> "dvar", n |-> n]
\* fql`(${source})?.[key]`
DProj(e, key) == [k |-> "dproj", of |-> e, key |-> key]
\* getDeferred() of expandChildren: let var = src; <dataContainer>, mapped when list
DComp(var, src, list, data) ==
    [k |-> "dcomp", var |-> var, src |-> src, list |-> list, data |-> data]
\* the composite of the backend with the signature of src/executor.ts:122
DCompT(var, src, type, data) ==
    [k |-> "dcompt", var |-> var, src |-> src, type |-> type, data |-> data]

\* getDeferred() of expandAbstractType: let var = src; the branch of the
\* value's __typename with __typename assigned to it, mapped when list
DAbs(var, src, list, branches) ==
    [k |-> "dabs", var |-> var, src |-> src, list |-> list, data |-> branches]

isDeferredValue(v) == v.k \in {"dlit", "dvar", "dproj", "dcomp", "dcompt", "dabs"}

Wrapped(e) == [k |-> "wrapped", of |-> e]
isWrappedValue(v) == v.k = "wrapped"
\* every source value is wrapped
wrapSourceValue_always(v) == Wrapped(v)

\* only a Query is wrapped; any other source value is returned as it is
wrapSourceValue(v) == IF isDeferredValue(v) THEN Wrapped(v) ELSE v
unwrapValue(v) == IF isWrappedValue(v) THEN v.of ELSE v

-----------------------------------------------------------------------------
(* The resolvers of the schema *)

\* the Int fields for which the data holds the string "foo", as in the tests
\* primitives > literal > invalid and primitives > deferred > invalid
InvalidFields == IF "invalid" \in DOMAIN sc THEN sc.invalid ELSE {}

\* the value the database holds in the place of the integer n of an invalid
\* field: the scenario's, "foo" or an error annotation
IntOf(field, n) == IF field \in InvalidFields THEN sc.bad[n] ELSE IntV(n)

BackendError == ErrV("boom")

XLit(i) ==
    IF getNamedType(sc.tx) = SubT
    THEN ObjV(<< <<"p", IntV(30 + i)>> >>)
    ELSE IntOf("x", 10 + i)

ObjLit(i) ==
    IF "obj" \in InvalidFields /\ sc.at = i THEN BackendError
    ELSE ObjV(<< <<"x", XLit(i)>>, <<"y", IntOf("y", 20 + i)>> >>)

\* the i-th value of abstract type the database holds, of the concrete type
\* the scenario gives it
AbstractLit(i) ==
    IF sc.kinds[i] = "Foo"
    THEN ObjV(<< <<"__typename", StrV("Foo")>>, <<"foo", IntV(40 + i)>> >>)
    ELSE ObjV(<< <<"__typename", StrV("Hello")>>, <<"hello", IntV(50 + i)>> >>)

RECURSIVE ValueOfType(_, _)
ValueOfType(t, i) ==
    CASE t.k = "nonnull" -> ValueOfType(t.of, i)
      [] t.k = "list" ->
            ListV([j \in 1..ListLen |->
                      IF sc.nulls /\ j = 2 THEN Null ELSE ValueOfType(t.of, j)])
      [] t = ObjT -> ObjLit(i)
      [] t = SubT -> XLit(i)
      [] isAbstractType(t) -> AbstractLit(i)
      [] OTHER -> IntOf("a", i)

LitOf(field) ==
    CASE field = "a" -> ValueOfType(sc.ta, 1)
      [] field = "x" -> XLit(0)
      [] field = "y" -> IntOf("y", 2)
      [] field = "p" -> IntV(3)
      [] OTHER -> IntOf(field, 4)

Behaviour(field) ==
    CASE field = "a" -> sc.ra
      [] field = "b" -> sc.rb
      [] field = "x" -> sc.rx
      [] field = "y" -> sc.ry
      [] OTHER -> sc.rp

\* source[key] as a resolver sees it: a wrapped source yields a wrapped
\* projection, an object its property, anything else undefined
Prop(source, key) ==
    IF isWrappedValue(source)
    THEN wrapSourceValue(DProj(source.of, key))
    ELSE At(source, key)

ResolverOk(v) == [k |-> "ok", v |-> v]
\* gql: the exception is a GraphQLError constructed with its own path
ResolverThrow(gql, m, path) == [k |-> "throw", gql |-> gql, m |-> m, path |-> path]
ResolverNextStage == [k |-> "next"]

\* resolveAbstractTypename = (source) => source.__typename
resolveAbstractTypename(source) ==
    [k |-> "ok", v |-> IF isWrappedValue(source)
                       THEN wrapSourceValue(DProj(source.of, "__typename"))
                       ELSE At(source, "__typename")]

\* what the field's resolver does with its source:
\*   lit / null     return a literal
\*   def / defnull  return a deferred expression
\*   proj           the default resolver, source[fieldName]
\*   awaitDef       async (v) => fql`${(await v)[fieldName]}`
\*   awaitLit       async (v) => (await v)[fieldName]
\*   throw          throws Error("bar")
\*   throwGql       throws GraphQLError("bar", {path: ["custom"]})
\* awaiting a wrapped source rejects with the nextStage symbol
ResolveField(field, source) ==
    LET b == Behaviour(field)
        mat == IF isNullValue(At(source, field)) THEN Null ELSE At(source, field)
    IN CASE b = "lit" -> ResolverOk(LitOf(field))
         [] b = "null" -> ResolverOk(Null)
         [] b = "def" -> ResolverOk(DLit(LitOf(field)))
         [] b = "defnull" -> ResolverOk(DLit(Null))
         [] b = "proj" -> ResolverOk(Prop(source, field))
         [] b = "awaitDef" ->
               IF isWrappedValue(source) THEN ResolverNextStage
               ELSE ResolverOk(DLit(mat))
         [] b = "awaitLit" ->
               IF isWrappedValue(source) THEN ResolverNextStage
               ELSE ResolverOk(At(source, field))
         [] b = "throwGql" -> ResolverThrow(TRUE, "bar", <<"custom">>)
         [] OTHER -> ResolverThrow(FALSE, "bar", <<>>)

\* history: one resolver invocation, what it returned, and the number of
\* batches that preceded it
CallRecord(path, source, r) ==
    [path |-> path, source |-> source,
     ret |-> IF r.k = "throw" /\ r.gql THEN "throwGql"
             ELSE IF r.k # "ok" THEN r.k
             ELSE IF isDeferredValue(unwrapValue(r.v)) THEN "deferred"
             ELSE "literal",
     stage |-> batches]

-----------------------------------------------------------------------------
(* Evaluation of deferred expressions by the database *)

EmptyEnv == [n \in {} |-> Null]
Bind(env, n, v) == [m \in DOMAIN env \cup {n} |-> IF m = n THEN v ELSE env[m]]

NonNullErr == ErrV("Cannot return null for non-nullable field")

RECURSIVE Eval(_, _)
RECURSIVE EvalTyped(_, _, _, _)
RECURSIVE EvalAbstract(_, _, _)

\* the value of the body of a composite for one (element) value v
EvalData(e, v, env) ==
    ObjV([i \in 1..Len(e.data) |->
             <<e.data[i][1], Eval(e.data[i][2], Bind(env, e.var, v))>>])

\* chainVarErrorOrNull(varName, dataContainerAsQuery(dataContainer))
chainVarErrorOrNull(e, v, env) ==
    IF isNullValue(v) THEN Null
    ELSE IF hasErrorMessage(v) THEN v
    ELSE EvalData(e, v, env)

\* resolveType: (value)?.__typename ?? {"@error": "failed to resolve type for ..."}
defaultTypeResolver(v) ==
    IF isNullValue(At(v, "__typename"))
    THEN ErrV("failed to resolve type")
    ELSE At(v, "__typename")

BranchOf(branches, typename) ==
    IF \E i \in 1..Len(branches) : StrV(branches[i][1]) = typename
    THEN branches[CHOOSE i \in 1..Len(branches) : StrV(branches[i][1]) = typename][2]
    ELSE DLit(Null)

\* chainVarErrorOrNull(var_result, Object.assign(var_result, {__typename}))
assignTypename(r, typename) ==
    IF isNullValue(r) THEN Null
    ELSE IF hasErrorMessage(r) THEN r
    ELSE IF r.k = "obj" THEN Put(r, "__typename", typename)
    ELSE r

\* the expression of expandAbstractType for one (element) value v
EvalAbstract(e, v, env) ==
    IF isNullValue(v) THEN Null
    ELSE IF hasErrorMessage(v) THEN v
    ELSE IF hasErrorMessage(defaultTypeResolver(v)) THEN defaultTypeResolver(v)
    ELSE assignTypename(Eval(BranchOf(e.data, defaultTypeResolver(v)),
                             Bind(env, e.var, v)),
                        defaultTypeResolver(v))

Eval(e, env) ==
    CASE e.k = "dlit" -> e.v
      [] e.k = "dvar" -> env[e.n]
      [] e.k = "dproj" ->
            LET o == Eval(e.of, env)
            IN IF isNullValue(At(o, e.key)) THEN Null ELSE At(o, e.key)
      [] e.k = "dcomp" ->
            LET s == Eval(e.src, env)
            IN IF e.list
               THEN IF s.k # "list"
                    THEN ErrV("expected Set or Array")
                    ELSE ListV([i \in 1..Len(s.e) |->
                                   chainVarErrorOrNull(e, s.e[i], env)])
               ELSE chainVarErrorOrNull(e, s, env)
      [] e.k = "dcompt" -> EvalTyped(e, e.type, Eval(e.src, env), env)
      [] e.k = "dabs" ->
            LET s == Eval(e.src, env)
            IN IF e.list
               THEN IF s.k # "list"
                    THEN ErrV("expected Set or Array")
                    ELSE ListV([i \in 1..Len(s.e) |-> EvalAbstract(e, s.e[i], env)])
               ELSE EvalAbstract(e, s, env)
      [] OTHER -> e

EvalTyped(e, t, v, env) ==
    CASE t.k = "nonnull" ->
            IF isNullValue(v) THEN NonNullErr ELSE EvalTyped(e, t.of, v, env)
      [] isNullValue(v) -> Null
      [] hasErrorMessage(v) -> v
      [] t.k = "list" ->
            IF v.k # "list"
            THEN ErrV("expected Set or Array")
            ELSE ListV([i \in 1..Len(v.e) |-> EvalTyped(e, t.of, v.e[i], env)])
      [] OTHER -> EvalData(e, v, env)

-----------------------------------------------------------------------------
(* Errors *)

\* a GraphQLError: loc is the field node that gives its location ("none" when
\* it has no nodes), orig the originalError ("none" when it has none)
GqlError(message, path, loc, orig) ==
    [message |-> message, path |-> path, loc |-> loc, orig |-> orig]

\* JSON.stringify(error): toJSON keeps message, locations and path
Fingerprint(e) == <<e.message, e.loc, e.path>>

\* a thrown exception: gql says it is a GraphQLError (and then has a path)
Thrown(gql, message, path) ==
    [ok |-> FALSE, gql |-> gql, message |-> message, path |-> path]

\* the error is recorded without the path of the field
CaughtError_noPath(e, fieldNode, path) ==
    GqlError(e.message, IF e.gql THEN e.path ELSE <<>>, fieldNode, e.message)

\* new GraphQLError(e.message, {nodes: e.nodes ?? [fieldNode], path: e.path ?? path,
\* originalError: e}) of the catch blocks of the scheduler
CaughtError(e, fieldNode, path) ==
    GqlError(e.message, IF e.gql THEN e.path ELSE path, fieldNode, e.message)

-----------------------------------------------------------------------------
(* The path-expand engine, src/expand.ts *)

didParentError(path, errors) ==
    \E i \in 1..Len(errors) :
        /\ Len(path) >= Len(errors[i].path)
        /\ \A j \in 1..Len(errors[i].path) : errors[i].path[j] = path[j]

RECURSIVE selectFromObjectAt(_, _, _)
selectFromObjectAt(obj, path, i) ==
    IF i >= Len(path) THEN [ok |-> TRUE, v |-> obj]
    ELSE IF hasErrorMessage(obj)
         THEN Thrown(TRUE, getErrorMessage(obj).v, Slice(path, 0, i))
         ELSE selectFromObjectAt(At(obj, path[i + 1]), path, i + 1)

selectFromObject(obj, path) == selectFromObjectAt(obj, path, 0)

\* the do-while search of fixErrorPath: the first position from which
\* pathArray agrees with errPath on the elements both have, or -1
FixPos(errPath, pathArray) ==
    LET matches(pos) ==
            /\ pathArray[pos + 1] = errPath[1]
            /\ \A i \in 1..Min(Len(errPath), Len(pathArray) - pos) :
                   pathArray[pos + i] = errPath[i]
        found == {pos \in 0..(Len(pathArray) - 1) : matches(pos)}
    IN IF found = {} THEN -1
       ELSE CHOOSE pos \in found : \A q \in found : pos <= q

fixErrorPath(errPath0, pathArray, deferredPath) ==
    LET errPath == IF errPath0 # <<>> /\ IsIdx(errPath0[1])
                   THEN Tail(errPath0) ELSE errPath0
        fixedDeferredPathLength ==
            Len(deferredPath)
              - (IF deferredPath # <<>> /\ IsIdx(deferredPath[1]) THEN 1 ELSE 0)
    IN IF errPath = <<>>
       THEN IF fixedDeferredPathLength = 0 THEN <<>>
            ELSE Slice(pathArray, 0, Len(pathArray) - fixedDeferredPathLength)
       ELSE Slice(pathArray, 0, FixPos(errPath, pathArray) + Len(errPath))

ExpOk(pairs) == [ok |-> TRUE, pairs |-> pairs]
Pair(path, value) == [path |-> path, value |-> value]

\* the loop over the matching suffix of the deferred path (expand.ts 133-149):
\* returns a finished result, an exception, or the state after the loop
RECURSIVE WalkSuffix(_, _, _, _, _, _)
WalkSuffix(obj, keys, i, pathPrefix, pathSuffix, deferredPath) ==
    IF i >= Len(keys)
    THEN [ok |-> TRUE, done |-> FALSE, obj |-> obj,
          pathPrefix |-> pathPrefix, pathSuffix |-> pathSuffix]
    ELSE IF isNullValue(obj)
    THEN [ok |-> TRUE, done |-> TRUE, pairs |-> <<Pair(pathPrefix, obj)>>]
    ELSE IF hasErrorMessage(obj)
    THEN Thrown(TRUE, getErrorMessage(obj).v, Slice(deferredPath, 0, i + 1))
    ELSE WalkSuffix(At(obj, keys[i + 1]), keys, i + 1,
                    Append(pathPrefix, Head(pathSuffix)), Tail(pathSuffix),
                    deferredPath)

\* a ShouldExcludeResultPredicate: undefined (as in every entry of a schema
\* without abstract types), or the closure shouldExcludeResultNext
\* of an abstract field (part_000:506-538) over its deferred path and the keys
\* selected per concrete type; the field's own shouldExcludeResult is undefined
\* since no abstract field is selected under another one
NoExclude == [defined |-> FALSE]
ExcludeNext(thisDeferredPath, typeFieldsMap) ==
    [defined |-> TRUE, thisDeferredPath |-> thisDeferredPath,
     typeFieldsMap |-> typeFieldsMap]

\* selectFromObject without getErrorMessage
RECURSIVE selectPlain(_, _, _)
selectPlain(obj, path, i) ==
    IF i >= Len(path) THEN obj ELSE selectPlain(At(obj, path[i + 1]), path, i + 1)

Excluded(b) == [ok |-> TRUE, v |-> b]

\* part_000:521-537 for the value at the abstract field and the key below it
excludeByTypename(value, key, typeFieldsMap) ==
    IF Falsy(value) \/ hasErrorMessage(value) THEN Excluded(FALSE)
    ELSE IF Falsy(At(value, "__typename"))
    THEN Thrown(FALSE, "missing __typename", <<>>)
    ELSE IF At(value, "__typename").v \notin DOMAIN typeFieldsMap
    THEN Thrown(FALSE, "unexpected typename", <<>>)
    ELSE Excluded(key \notin typeFieldsMap[At(value, "__typename").v])

\* the key of the deferred path that follows the abstract field's path
KeyBelow(this, deferredPath) ==
    IF Len(deferredPath) > Len(this) THEN deferredPath[Len(this) + 1] ELSE "undefined"

\* shouldExcludeResult?.(deferredPath, deferredValue)
shouldExclude(shouldExcludeResult, deferredPath, deferredValue) ==
    IF ~shouldExcludeResult.defined THEN Excluded(FALSE)
    ELSE IF \/ Len(shouldExcludeResult.thisDeferredPath) > Len(deferredPath)
            \/ \E i \in 1..Len(shouldExcludeResult.thisDeferredPath) :
                   shouldExcludeResult.thisDeferredPath[i] # deferredPath[i]
    THEN Excluded(FALSE)
    ELSE IF KeyBelow(shouldExcludeResult.thisDeferredPath, deferredPath) = LIST_PLACEHOLDER
    THEN Excluded(FALSE)
    ELSE excludeByTypename(
             selectPlain(deferredValue,
                 shouldExcludeResult.thisDeferredPath
                   \o (IF IsIdx(KeyBelow(shouldExcludeResult.thisDeferredPath, deferredPath))
                       THEN <<KeyBelow(shouldExcludeResult.thisDeferredPath, deferredPath)>>
                       ELSE <<>>), 0),
             KeyBelow(shouldExcludeResult.thisDeferredPath, deferredPath),
             shouldExcludeResult.typeFieldsMap)

RECURSIVE expandFromObject(_, _, _, _, _)
RECURSIVE ExpandElems(_, _, _, _, _, _, _)

\* slice(0, pos < 0 ? undefined : pos) for the first placeholder of p
preArray(p) ==
    IF IndexOf(p, LIST_PLACEHOLDER, 0) < 0 THEN p
    ELSE Slice(p, 0, IndexOf(p, LIST_PLACEHOLDER, 0))

\* the loop that counts the matching suffix of the two pre-array paths
matchingSuffixLength(preP, preD) ==
    LET common == {n \in 0..Min(Len(preP), Len(preD)) :
                      \A i \in 0..(n - 1) :
                          preP[Len(preP) - i] = preD[Len(preD) - i]}
    IN CHOOSE n \in common :
           /\ \A m \in 0..n : m \in common
           /\ (n + 1 \in common => FALSE)

\* the catch of expand.ts 150-158
rethrowFixed(e, pathArray, deferredPath) ==
    IF e.gql
    THEN Thrown(TRUE, e.message, fixErrorPath(e.path, pathArray, deferredPath))
    ELSE e

\* expand.ts 150-228, walk being the outcome of the loop of 133-149
expandWalked(walkArg, deferredPath, pathArray, shouldExcludeResult, errors) ==
    CHOOSE out \in {
            IF ~walk.ok THEN rethrowFixed(walk, pathArray, deferredPath)
            ELSE IF walk.done THEN ExpOk(walk.pairs)
            ELSE IF isNullValue(walk.obj) THEN ExpOk(<<Pair(walk.pathPrefix, walk.obj)>>)
            ELSE IF walk.pathSuffix = <<>> \/ Head(walk.pathSuffix) # LIST_PLACEHOLDER
            THEN IF walk.pathPrefix = <<>>
                 THEN Thrown(FALSE, "expandFromObject: pathPrefix is undefined", <<>>)
                 ELSE ExpOk(<<Pair(walk.pathPrefix, walk.obj)>>)
            ELSE IF walk.obj.k # "list"
            THEN Thrown(TRUE, "Expected array", walk.pathPrefix)
            ELSE IF walk.obj.e = <<>>
            THEN IF walk.pathPrefix = <<>>
                 THEN Thrown(FALSE, "expandFromObject: pathPrefix is undefined", <<>>)
                 ELSE ExpOk(<<Pair(walk.pathPrefix, walk.obj)>>)
            ELSE ExpandElems(walk.obj.e, 0,
                             Slice(deferredPath,
                                   IndexOf(deferredPath, LIST_PLACEHOLDER, 0) + 1,
                                   Len(deferredPath)),
                             Tail(walk.pathSuffix), walk.pathPrefix, shouldExcludeResult,
                             errors)
        : walk \in {walkArg}} : TRUE

\* expand.ts 128-228, sel being the outcome of selectFromObject and moved the
\* number of keys the loop of 122-125 moves from pathSuffix to pathPrefix
expandSelected(selArg, suffixKeys, moved, deferredPath, path, shouldExcludeResult, errors) ==
    CHOOSE out \in {
            IF ~sel.ok THEN rethrowFixed(sel, path, deferredPath)
            ELSE IF isNullValue(sel.v) THEN ExpOk(<<Pair(Slice(path, 0, moved), sel.v)>>)
            ELSE expandWalked(WalkSuffix(sel.v, suffixKeys, 0, Slice(path, 0, moved),
                                         Slice(path, moved, Len(path)), deferredPath),
                              deferredPath, path, shouldExcludeResult, errors)
        : sel \in {selArg}} : TRUE

\* expand.ts 108-228 for the two pre-array paths and their matching suffix
expandMatched(obj, deferredPath, path, shouldExcludeResult, errors, preD, lenP, suffixLength) ==
    expandSelected(selectFromObject(obj, Slice(preD, 0, Len(preD) - suffixLength)),
                   Slice(preD, Len(preD) - suffixLength, Len(preD)),
                   lenP - suffixLength, deferredPath, path, shouldExcludeResult,
                   errors)

\* the placeholder counts are compared and a difference gives no pairs
expandFromObject_lenient(objArg, deferredPathArg, pathArg, shouldExcludeResult, errors) ==
    CHOOSE out \in {
            IF ~shouldExclude(shouldExcludeResult, deferredPath, obj).ok
            THEN shouldExclude(shouldExcludeResult, deferredPath, obj)
            ELSE IF shouldExclude(shouldExcludeResult, deferredPath, obj).v THEN ExpOk(<<>>)
            ELSE IF didParentError(path, errors) THEN ExpOk(<<>>)
            ELSE IF deferredPath = <<>> THEN ExpOk(<<Pair(path, obj)>>)
            ELSE IF Count(deferredPath, LIST_PLACEHOLDER) # Count(path, LIST_PLACEHOLDER)
            THEN ExpOk(<<>>)
            ELSE IF /\ Count(deferredPath, LIST_PLACEHOLDER) > 1
                    /\ Slice(deferredPath, IndexOf(deferredPath, LIST_PLACEHOLDER, 0) + 1,
                             Len(deferredPath))
                         # Slice(path, IndexOf(path, LIST_PLACEHOLDER, 0) + 1, Len(path))
            THEN Thrown(FALSE, "expandFromObject: pathArrayMiddle !== deferredPathMiddle", <<>>)
            ELSE expandMatched(obj, deferredPath, path, shouldExcludeResult, errors,
                               preArray(deferredPath), Len(preArray(path)),
                               matchingSuffixLength(preArray(path), preArray(deferredPath)))
        : obj \in {objArg}, deferredPath \in {deferredPathArg}, path \in {pathArg}} : TRUE

expandFromObject(objArg, deferredPathArg, pathArg, shouldExcludeResult, errors) ==
    CHOOSE out \in {
            LET pathArray == path
                arrayIndexPlaceholderCount == Count(deferredPath, LIST_PLACEHOLDER)
                firstD == IndexOf(deferredPath, LIST_PLACEHOLDER, 0)
                firstP == IndexOf(pathArray, LIST_PLACEHOLDER, 0)
            IN IF ~shouldExclude(shouldExcludeResult, deferredPath, obj).ok
               THEN shouldExclude(shouldExcludeResult, deferredPath, obj)
               ELSE IF shouldExclude(shouldExcludeResult, deferredPath, obj).v THEN ExpOk(<<>>)
               ELSE IF didParentError(pathArray, errors) THEN ExpOk(<<>>)
               ELSE IF deferredPath = <<>> THEN ExpOk(<<Pair(path, obj)>>)
               ELSE IF arrayIndexPlaceholderCount # Count(pathArray, LIST_PLACEHOLDER)
               THEN Thrown(FALSE, "expandFromObject: arraysFromPath !== arraysFromDeferred", <<>>)
               ELSE IF /\ arrayIndexPlaceholderCount > 1
                       /\ Slice(deferredPath, firstD + 1, Len(deferredPath))
                            # Slice(pathArray, firstP + 1, Len(pathArray))
               THEN Thrown(FALSE, "expandFromObject: pathArrayMiddle !== deferredPathMiddle", <<>>)
               ELSE expandMatched(obj, deferredPath, path, shouldExcludeResult, errors,
                                  preArray(deferredPath),
                                  Len(preArray(pathArray)),
                                  matchingSuffixLength(preArray(pathArray),
                                                       preArray(deferredPath)))
        : obj \in {objArg}, deferredPath \in {deferredPathArg}, path \in {pathArg}} : TRUE

\* the row-major order turned around
expandElem_restFirst(rArg, restArg, here) ==
    CHOOSE out \in {
            IF ~r.ok
            THEN IF r.gql THEN Thrown(TRUE, r.message, here \o r.path) ELSE r
            ELSE IF ~rest.ok THEN rest
            ELSE ExpOk(rest.pairs
                       \o [i \in 1..Len(r.pairs) |->
                              Pair(here \o r.pairs[i].path, r.pairs[i].value)])
        : r \in {rArg}, rest \in {restArg}} : TRUE

\* one element of obj.flatMap((elem, index) => ...) of expand.ts 202-228 and the
\* elements after it: the first element that throws ends the whole call.  The
\* recursive call is given shouldExcludeResult itself (line 211); the curried
\* predicate of lines 204-208 is never used
expandElem(rArg, restArg, here) ==
    CHOOSE out \in {
            IF ~r.ok
            THEN IF r.gql THEN Thrown(TRUE, r.message, here \o r.path) ELSE r
            ELSE IF ~rest.ok THEN rest
            ELSE ExpOk([i \in 1..Len(r.pairs) |->
                           Pair(here \o r.pairs[i].path, r.pairs[i].value)]
                       \o rest.pairs)
        : r \in {rArg}, rest \in {restArg}} : TRUE

ExpandElems(elemsArg, index, deferredPath, pathSuffix, pathPrefix, shouldExcludeResult, errors) ==
    CHOOSE out \in {
            IF index >= Len(elems) THEN ExpOk(<<>>)
            ELSE expandElem(expandFromObject(elems[index + 1], deferredPath, pathSuffix,
                                             shouldExcludeResult, errors),
                            ExpandElems(elems, index + 1, deferredPath, pathSuffix,
                                        pathPrefix, shouldExcludeResult, errors),
                            Append(pathPrefix, IdxKey(index)))
        : elems \in {elemsArg}} : TRUE

-----------------------------------------------------------------------------
(* The backend's expandChildren closures, src/backends/faunadbV10.ts *)

\* every closure writes the first slot
SlotSetter_first(index) == [k |-> "slot", i |-> 0]

\* setDeferredChild of a new slot: deferredExprs[index] = [expr, path]
SlotSetter(index) == [k |-> "slot", i |-> index]
\* child.setData of the container c for the response key key
ChildSetter(c, key) == [k |-> "child", c |-> c, key |-> key]

\* the closure state expandChildren creates: dataContainer, and what
\* getDeferred and setDeferred capture
Container(var, src, list, up) ==
    [typed |-> FALSE, var |-> var, src |-> src, list |-> list, data |-> <<>>,
     up |-> up]

\* the closure state of the expandChildren that src/executor.ts:122 declares
\* (path, parentValue, parentType, fieldNodes, setDeferred, args)
TypedContainer(var, src, type, up) ==
    [typed |-> TRUE, var |-> var, src |-> src, type |-> type, data |-> <<>>,
     up |-> up]

\* the closure state expandAbstractType creates: branches (in data), and what
\* its getDeferred captures
AbstractContainer(var, src, list, up) ==
    [typed |-> FALSE, abstract |-> TRUE, var |-> var, src |-> src, list |-> list,
     data |-> <<>>, up |-> up]

getDeferred(c) ==
    IF "abstract" \in DOMAIN c THEN DAbs(c.var, c.src, c.list, c.data)
    ELSE IF c.typed THEN DCompT(c.var, c.src, c.type, c.data)
    ELSE DComp(c.var, c.src, c.list, c.data)

\* the contribution is added behind the ones the container has
PutEntry_append(data, key, v) == Append(data, <<key, v>>)

PutEntry(data, key, v) ==
    IF \E i \in 1..Len(data) : data[i][1] = key
    THEN [i \in 1..Len(data) |-> IF data[i][1] = key THEN <<key, v>> ELSE data[i]]
    ELSE Append(data, <<key, v>>)

\* calling a setter: st.c are the containers, st.d the deferred slots
RECURSIVE ApplySet(_, _, _)
ApplySet(st, setter, expr) ==
    IF setter.k = "slot"
    THEN [st EXCEPT !.d[setter.i + 1].expr = expr]
    ELSE LET c == [st.c[setter.c] EXCEPT
                      !.data = PutEntry(@, setter.key, unwrapValue(expr))]
         IN ApplySet([st EXCEPT !.c[setter.c] = c], c.up, getDeferred(c))

\* expandChildren(path, returnType, value, fieldNodes, setDeferred): the new
\* container, and the path the children hang from
expandChildrenContainer(path, returnType, value, setDeferred) ==
    Container(path, value, isListType(getNullableType(returnType)), setDeferred)

expandChildrenPath(path, returnType) ==
    IF isListType(getNullableType(returnType))
    THEN Append(path, LIST_PLACEHOLDER)
    ELSE path

\* client.query of the combined query: one value per deferred expression
EvalBatch(exprs) == ListV([i \in 1..Len(exprs) |-> Eval(exprs[i].expr, EmptyEnv)])

-----------------------------------------------------------------------------
(* Selection flattening: selectionFields, satisfiesTypeCondition and
   dedupeSelection of src/unnamed/part_002 (lines 93-258) *)

\* the schema of the selections:
\*   interface Node    interface Pet implements Node
\*   type Dog implements Pet    type Cat    type Robot    union Animal = Dog | Cat
getInterfaces(type) ==
    CASE type = "Dog" -> <<"Pet">>
      [] type = "Pet" -> <<"Node">>
      [] type \in {"Foo", "Hello"} -> <<"Greeting">>
      [] OTHER -> <<>>

\* unionMap[name]?.getTypes(): the member types, <<>> when name is no union
UnionTypes(name) ==
    CASE name = "Animal" -> <<"Dog", "Cat">>
      [] name = "FooHello" -> <<"Foo", "Hello">>
      [] OTHER -> <<>>

\* AST nodes; alias "" and typeCondition "" stand for an absent one, arguments
\* and directives for their JSON text without locations
FieldNode(name, alias, arguments, directives, hasSelectionSet, selections) ==
    [kind |-> "Field", name |-> name, alias |-> alias, arguments |-> arguments,
     directives |-> directives, hasSelectionSet |-> hasSelectionSet,
     selections |-> selections]
InlineFragmentNode(typeCondition, selections) ==
    [kind |-> "InlineFragment", typeCondition |-> typeCondition,
     selections |-> selections]
FragmentSpreadNode(name) == [kind |-> "FragmentSpread", name |-> name]

Leaf(name) == FieldNode(name, "", "[]", "[]", FALSE, <<>>)

\* the keys every object inherits from Object.prototype, among the names used
InheritedKeys == {"constructor"}

\* the fragment definitions of the document
fragmentMap ==
    [name \in {"OnPet", "OnAnimal"} |->
        IF name = "OnPet"
        THEN [typeCondition |-> "Pet",
              selections |-> <<FieldNode("o", "", "[]", "[]", TRUE, <<Leaf("w")>>),
                               Leaf("a")>>]
        ELSE [typeCondition |-> "Animal", selections |-> <<Leaf("b")>>]]

RECURSIVE satisfiesTypeCondition(_, _)
RECURSIVE SomeInterfaceSatisfies(_, _, _)

SomeInterfaceSatisfies(ifaces, i, condition) ==
    IF i > Len(ifaces) THEN FALSE
    ELSE satisfiesTypeCondition(ifaces[i], condition)
           \/ SomeInterfaceSatisfies(ifaces, i + 1, condition)

satisfiesTypeCondition(type, condition) ==
    IF condition = type THEN TRUE
    ELSE IF Includes(UnionTypes(condition), type) THEN TRUE
    ELSE SomeInterfaceSatisfies(getInterfaces(type), 1, condition)

SelOk(nodes) == [ok |-> TRUE, nodes |-> nodes]
SelThrown(message) == [ok |-> FALSE, message |-> message]

responseKey(node) == IF node.alias # "" THEN node.alias ELSE node.name

\* the position of key among the own keys of fieldsByKey, 0 when absent
OwnPos(fieldsByKey, key) ==
    IF \E i \in 1..Len(fieldsByKey) : responseKey(fieldsByKey[i]) = key
    THEN CHOOSE i \in 1..Len(fieldsByKey) : responseKey(fieldsByKey[i]) = key
    ELSE 0

\* the merge of lines 185-197
mergeSelectionSet(existing, node) ==
    IF existing.hasSelectionSet /\ node.hasSelectionSet
    THEN [existing EXCEPT !.selections = existing.selections \o node.selections]
    ELSE existing

\* the loop of dedupeSelection from the i-th node on; fieldsByKey holds the own
\* properties in insertion order.  fieldsByKey[key] of a key that Object.prototype
\* defines is a function, not a field node: reading its arguments throws, and
\* were it to return anything the comparison with the node's arguments would
\* throw the conflict error
RECURSIVE DedupeNodes(_, _, _)
DedupeNodes(fieldNodes, i, fieldsByKey) ==
    IF i > Len(fieldNodes) THEN SelOk(fieldsByKey)
    ELSE IF OwnPos(fieldsByKey, responseKey(fieldNodes[i])) = 0
    THEN IF responseKey(fieldNodes[i]) \in InheritedKeys
         THEN SelThrown("TypeError")
         ELSE DedupeNodes(fieldNodes, i + 1, Append(fieldsByKey, fieldNodes[i]))
    ELSE IF fieldsByKey[OwnPos(fieldsByKey, responseKey(fieldNodes[i]))].arguments
              # fieldNodes[i].arguments
    THEN SelThrown("duplicate field with different arguments")
    ELSE IF fieldsByKey[OwnPos(fieldsByKey, responseKey(fieldNodes[i]))].directives
              # fieldNodes[i].directives
    THEN SelThrown("duplicate field with different directives")
    ELSE DedupeNodes(fieldNodes, i + 1,
             [fieldsByKey EXCEPT ![OwnPos(fieldsByKey, responseKey(fieldNodes[i]))] =
                 mergeSelectionSet(@, fieldNodes[i])])

\* the flattening of the older versions, which return the nodes as collected
dedupeSelection_keepAll(fieldNodes) == SelOk(fieldNodes)

dedupeSelection(fieldNodes) == DedupeNodes(fieldNodes, 1, <<>>)

RECURSIVE selectionFields(_, _)
RECURSIVE FlatMapNodes(_, _, _)

\* the callback of flatMap for one node
SelectNode(node, type) ==
    IF node.kind = "Field" THEN SelOk(<<node>>)
    ELSE IF node.kind = "InlineFragment"
    THEN IF node.typeCondition = ""
              \/ ~satisfiesTypeCondition(type, node.typeCondition)
         THEN SelOk(<<>>)
         ELSE selectionFields(node.selections, type)
    ELSE IF node.name \notin DOMAIN fragmentMap
    THEN SelThrown("missing fragment definition")
    ELSE IF ~satisfiesTypeCondition(type, fragmentMap[node.name].typeCondition)
    THEN SelOk(<<>>)
    ELSE selectionFields(fragmentMap[node.name].selections, type)

\* one step of flatMap: the first callback that throws ends the call
FlatMapStep(first, selections, i, type) ==
    IF ~first.ok THEN first
    ELSE IF ~FlatMapNodes(selections, i + 1, type).ok
    THEN FlatMapNodes(selections, i + 1, type)
    ELSE SelOk(first.nodes \o FlatMapNodes(selections, i + 1, type).nodes)

FlatMapNodes(selections, i, type) ==
    IF i > Len(selections) THEN SelOk(<<>>)
    ELSE FlatMapStep(SelectNode(selections[i], type), selections, i, type)

DedupeFlat(flat) == IF flat.ok THEN dedupeSelection(flat.nodes) ELSE flat

selectionFields(selections, type) == DedupeFlat(FlatMapNodes(selections, 1, type))

-----------------------------------------------------------------------------
(* Helpers of the five-queue scheduler, src/unnamed/part_000 *)

equivalentPathKey(a, b) ==
    \/ a = b
    \/ (IsIdx(a) /\ b = LIST_PLACEHOLDER)
    \/ (a = LIST_PLACEHOLDER /\ IsIdx(b))

\* the key of a Path node, "undefined" for the undefined Path
PathKey(path) == IF path = <<>> THEN "undefined" ELSE path[Len(path)]
PathPrev(path) == Slice(path, 0, Len(path) - 1)

\* the placeholder of the children's path is left out of the deferred path
arrayNewElems_none(prev, next) == <<>>

\* arrayNewElems for a next that extends prev (the only way it is called)
arrayNewElems(prev, next) == Slice(next, Len(prev), Len(next))

\* the fields each object type defines
FieldsOf(typeName) ==
    CASE typeName = "Query" -> {"a", "b"}
      [] typeName = "Obj" -> {"x", "y"}
      [] typeName = "Sub" -> {"p"}
      [] typeName = "Foo" -> {"foo", "__typename"}
      [] typeName = "Hello" -> {"hello", "__typename"}
      [] OTHER -> {}

NoDeferral == [k |-> "none"]
Deferral(set, path) == [k |-> "some", set |-> set, path |-> path]

\* parentType is the chain of object type names, the innermost last
buildUnresolvedFields(prevPath, parentType, sourceValue, selection) ==
    [i \in 1..Len(selection) |->
        [fieldNode |-> selection[i], fieldNodes |-> selection,
         prevPath |-> prevPath, parentType |-> parentType,
         sourceValue |-> sourceValue, deferral |-> NoDeferral,
         overrideFieldResolver |-> FALSE, shouldExcludeResult |-> NoExclude]]

\* parentType.parent taken n times; <<>> stands for the throw 'Expected parent'
ParentHops(parentType, n) ==
    IF n >= Len(parentType) THEN <<>> ELSE Slice(parentType, 0, Len(parentType) - n)

\* GraphQLInt.serialize
Serialize(v) ==
    IF v.k = "int" THEN [ok |-> TRUE, v |-> v]
    ELSE Thrown(FALSE, "Int cannot represent non-integer value", <<>>)

\* GraphQLString.serialize: a string as it is, a finite number as its digits
SerializeString(v) ==
    IF v.k = "str" THEN [ok |-> TRUE, v |-> v]
    ELSE IF v.k = "int" /\ v.v \in 0..(Len(Digits) - 1)
    THEN [ok |-> TRUE, v |-> StrV(IdxKey(v.v))]
    ELSE Thrown(FALSE, "String cannot represent value", <<>>)

\* the order of the three drain loops of part_000:359-757
AfterResolve(s1, s2, s3) ==
    IF s1 # <<>> THEN "resolve"
    ELSE IF s2 # <<>> THEN "discriminate"
    ELSE IF s3 # <<>> THEN "validate"
    ELSE "endDrain"

AfterDiscriminate(s1, s2, s3) ==
    IF s2 # <<>> THEN "discriminate"
    ELSE IF s3 # <<>> THEN "validate"
    ELSE AfterResolve(s1, s2, s3)

\* a drain that ends with the validate queue, whatever the validated
\* objects have added to the resolve queue
AfterValidate_early(s1, s2, s3) ==
    IF s3 # <<>> THEN "validate" ELSE "endDrain"

AfterValidate(s1, s2, s3) ==
    IF s3 # <<>> THEN "validate" ELSE AfterResolve(s1, s2, s3)

\* the return value of the outer catch of execute for the one error err
CaughtResult(err) ==
    [rejected |-> FALSE, hasData |-> FALSE, data |-> Null, errors |-> <<err>>]

-----------------------------------------------------------------------------
(* Initial states: the request (schema, document, resolvers) is any scenario *)

TypesA == {IntT, NonNullT(IntT), ListT(IntT), ListT(NonNullT(IntT)),
           ObjT, NonNullT(ObjT), ListT(ObjT)}
TypesX == {IntT, NonNullT(IntT), SubT}

DefaultChildren(s) == s.rx = "proj" /\ s.ry = "proj" /\ s.rp = "proj"

Scenarios ==
    {s \in [ta : TypesA, tx : TypesX,
            ra : {"lit", "null", "def", "defnull", "throw"},
            rb : {"lit", "def", "throw"},
            rx : {"proj", "null", "defnull", "awaitDef", "awaitLit", "throw",
                  "throwGql"},
            ry : {"proj", "awaitDef"},
            rp : {"proj", "awaitDef"},
            nulls : BOOLEAN,
            ops : 0..2, root : BOOLEAN] :
        \* the fields that cannot influence the execution have one value
        /\ (s.ops # 1 \/ ~s.root) =>
               /\ s.ta = IntT /\ s.tx = IntT /\ s.ra = "lit" /\ s.rb = "lit"
               /\ DefaultChildren(s) /\ ~s.nulls
        /\ s.ops # 1 => s.root
        /\ (getNamedType(s.ta) # ObjT \/ s.ra \in {"null", "throw"}) =>
               s.tx = IntT /\ DefaultChildren(s)
        /\ getNamedType(s.tx) # SubT => s.rp = "proj"
        /\ s.rx \in {"null", "defnull", "throw", "throwGql"} => s.rp = "proj"
        /\ s.nulls => isListType(getNullableType(s.ta)) /\ s.ra \in {"lit", "def"}}

\* no library function is under check during an execution
NoCall == [fn |-> "none"]

NoResult == [rejected |-> FALSE, hasData |-> FALSE, data |-> Undef, errors |-> <<>>]

Init ==
    /\ impl \in {"five", "exec"}
    /\ sc \in Scenarios
    /\ pc = "setup"
    /\ step1_resolve = <<>>
    /\ step2_discriminate = <<>>
    /\ step3_validate = <<>>
    /\ step4_restage = <<>>
    /\ step5_revalidate = <<>>
    /\ deferredExprs = <<>>
    /\ containers = <<>>
    /\ deferredValues = Undef
    /\ completedFields = <<>>
    /\ unvalidatedResult = Undef
    /\ resultErrors = <<>>
    /\ result = NoResult
    /\ batches = 0
    /\ thrown = "none"
    /\ calls = <<>>
    /\ restaged = <<>>
    /\ called = NoCall
    /\ returned = NoCall

-----------------------------------------------------------------------------
(* Request setup, common to both schedulers *)

\* extractOperationAndFragments(document) for a document with ops operation
\* definitions, none of them named
extractOperationAndFragments(ops) ==
    IF ops = 0 THEN Thrown(TRUE, "missing operation", <<>>)
    ELSE IF ops # 1 THEN Thrown(TRUE, "only one unnamed operation allowed", <<>>)
    ELSE [ok |-> TRUE]

\* getRootType(schema, operation) of a query operation
getRootType(root) == IF root THEN "Query" ELSE "undefined"

\* what the statements before the try block throw, if they throw
SetupThrows ==
    IF ~extractOperationAndFragments(sc.ops).ok
    THEN extractOperationAndFragments(sc.ops)
    ELSE IF getRootType(sc.root) = "undefined"
    THEN Thrown(FALSE, "missing query type", <<>>)
    ELSE [ok |-> TRUE]

\* the promise of execute rejects with the exception e
Rejected(e) ==
    [rejected |-> TRUE, hasData |-> FALSE, data |-> Undef,
     errors |-> <<GqlError(e.message, <<>>, "none", "none")>>]

-----------------------------------------------------------------------------
(* The five-queue scheduler, src/unnamed/part_000 *)

FiveQueues(npc, s1, s2, s3, s4, s5, st, cf, errs) ==
    /\ pc' = npc
    /\ step1_resolve' = s1
    /\ step2_discriminate' = s2
    /\ step3_validate' = s3
    /\ step4_restage' = s4
    /\ step5_revalidate' = s5
    /\ containers' = st.c
    /\ deferredExprs' = st.d
    /\ completedFields' = cf
    /\ resultErrors' = errs

St == [c |-> containers, d |-> deferredExprs]

\* a batch is called although no expression is pending
Drained_unguarded(next, d) ==
    IF next # "endDrain" THEN next ELSE "batch"

\* the test of part_000:760 at the end of the drain loops
Drained(next, d) ==
    IF next # "endDrain" THEN next
    ELSE IF d # <<>> THEN "batch" ELSE "endIteration"

\* args.rootValue: undefined as in the tests, unless the scenario gives one
rootValue == IF "rootValue" \in DOMAIN sc THEN sc.rootValue ELSE Undef

FiveSetup ==
    /\ impl = "five" /\ pc = "setup"
    /\ IF SetupThrows.ok
       THEN /\ step1_resolve' =
                  buildUnresolvedFields(<<>>, <<"Query">>, rootValue, RootSelection)
            /\ pc' = IF RootSelection # <<>> THEN "resolve" ELSE "assemble"
            /\ result' = result
       ELSE /\ result' = Rejected(SetupThrows)
            /\ pc' = "done"
            /\ step1_resolve' = step1_resolve
    /\ UNCHANGED <<called, returned, impl, sc, step2_discriminate, step3_validate, step4_restage,
                   step5_revalidate, deferredExprs, containers, deferredValues,
                   completedFields, unvalidatedResult, resultErrors, batches,
                   thrown,
                   calls, restaged>>

\* one iteration of the loop over step1_resolve (part_000:359-436)
FiveResolve ==
    /\ impl = "five" /\ pc = "resolve"
    /\ LET t == Head(step1_resolve)
           s1 == Tail(step1_resolve)
           fieldKey == fieldNodeKey(t.fieldNode)
           path == Append(t.prevPath, fieldKey)
           hasFieldDef == t.fieldNode \in FieldsOf(t.parentType[Len(t.parentType)])
           sourceValue == wrapSourceValue(t.sourceValue)
           r == IF t.overrideFieldResolver
                THEN resolveAbstractTypename(sourceValue)
                ELSE ResolveField(t.fieldNode, sourceValue)
           pushed(e) == Append(resultErrors, CaughtError(e, t.fieldNode, path))
           go(s2, s4, st, errs) ==
               FiveQueues(Drained(AfterResolve(s1, s2, step3_validate), st.d),
                          s1, s2, step3_validate, s4, step5_revalidate, st,
                          completedFields, errs)
       IN IF ~hasFieldDef
          THEN /\ go(step2_discriminate, step4_restage, St,
                     pushed(Thrown(FALSE, "Cannot read properties of undefined", <<>>)))
               /\ UNCHANGED <<calls, restaged>>
          ELSE /\ calls' = Append(calls, CallRecord(path, sourceValue, r))
               /\ CASE r.k = "ok" ->
                        /\ go(Append(step2_discriminate,
                                     [fieldNode |-> t.fieldNode, fieldNodes |-> t.fieldNodes,
                                      fieldValue |-> unwrapValue(r.v),
                                      fieldType |-> FieldType(t.fieldNode),
                                      parentType |-> t.parentType, path |-> path,
                                      deferral |-> t.deferral,
                                      shouldExcludeResult |-> t.shouldExcludeResult]),
                              step4_restage, St, resultErrors)
                        /\ UNCHANGED restaged
                    [] r.k = "throw" ->
                        /\ go(step2_discriminate, step4_restage, St,
                              pushed(Thrown(r.gql, r.m, r.path)))
                        /\ UNCHANGED restaged
                    [] OTHER ->
                        IF t.deferral.k = "none"
                        THEN /\ go(step2_discriminate, step4_restage, St,
                                   pushed(Thrown(FALSE, "expected deferral value", <<>>)))
                             /\ UNCHANGED restaged
                        ELSE /\ go(step2_discriminate,
                                   Append(step4_restage,
                                          [fieldNode |-> t.fieldNode,
                                           fieldNodes |-> t.fieldNodes,
                                           parentType |-> t.parentType,
                                           prevPath |-> t.prevPath,
                                           deferredPath |-> Append(t.deferral.path, fieldKey),
                                           shouldExcludeResult |-> t.shouldExcludeResult]),
                                   ApplySet(St, t.deferral.set, sourceValue),
                                   resultErrors)
                             /\ restaged' = Append(restaged, path)
    /\ UNCHANGED <<called, returned, impl, sc, deferredValues, unvalidatedResult, result,
                   batches, thrown>>

\* the object types of the executed schema in the order of its type map
ObjectTypes == <<"Query", "Obj", "Sub", "Foo", "Hello">>

\* findImplementors(schema, iface) of src/utils.ts
findImplementors(iface) ==
    SelectSeq(ObjectTypes, LAMBDA type : Includes(getInterfaces(type), iface))

\* the concrete types expandAbstractType returns entries for
concreteTypesOf(abstractType) ==
    IF abstractType = "Greeting" THEN findImplementors(abstractType)
    ELSE UnionTypes(abstractType)

\* the selection set of the field a of abstract type:
\*   { a { __typename ... on Foo { foo } ... on Hello { hello } } b }
\* the document selecting __typename or not
AbstractSelections ==
    (IF sc.tn THEN <<Leaf("__typename")>> ELSE <<>>)
      \o <<InlineFragmentNode("Foo", <<Leaf("foo")>>),
           InlineFragmentNode("Hello", <<Leaf("hello")>>)>>

\* selectedFieldNodes of one concrete type, as the keys of the nodes
selectedKeys(r) == [i \in 1..Len(r.nodes) |-> responseKey(r.nodes[i])]

\* varName of expandAbstractType: "__" + path.join("_")
AbsVar(path) == <<"__">> \o path

\* backend.expandAbstractType and the backend.expandChildren of every concrete
\* type with suppressArrayHandling: the containers they create
AbstractContainers(st, t, setDeferredChild, concretes) ==
    [st EXCEPT !.c =
        Append(@, AbstractContainer(AbsVar(t.path), t.fieldValue,
                                    isListType(getNullableType(t.fieldType)),
                                    setDeferredChild))
          \o [j \in 1..Len(concretes) |->
                 Container(t.path, DVar(AbsVar(t.path)), FALSE,
                           ChildSetter(Len(st.c) + 1, concretes[j]))]]

\* the entries pushed to step1_resolve for the concrete type whose container is c
ConcreteChildren(t, concreteType, c, selected, deferredPath, exclude) ==
    [i \in 1..Len(selected) |->
        [fieldNode |-> selected[i],
         fieldNodes |-> selected,
         prevPath |-> expandChildrenPath(t.path, t.fieldType),
         parentType |-> Append(t.parentType, concreteType),
         sourceValue |-> DVar(t.path),
         overrideFieldResolver |->
             selected[i] = "__typename" /\ concreteType # getNamedType(t.fieldType).n,
         shouldExcludeResult |-> exclude,
         deferral |->
             Deferral(ChildSetter(c, selected[i]),
                      deferredPath
                        \o arrayNewElems(t.path, expandChildrenPath(t.path, t.fieldType)))]]

typeFieldsMap(concretes) ==
    [n \in {concretes[j] : j \in 1..Len(concretes)} |->
        {responseKey(node) : node \in
            {selectionFields(AbstractSelections, n).nodes[i] :
                i \in 1..Len(selectionFields(AbstractSelections, n).nodes)}}]

\* the children of all concrete types (part_000:568-592), c being the index of
\* the container of expandAbstractType
AbstractChildren(t, concretes, c, deferredPath) ==
    Flatten([j \in 1..Len(concretes) |->
        ConcreteChildren(t, concretes[j], c + j,
                         selectedKeys(selectionFields(AbstractSelections, concretes[j])),
                         deferredPath,
                         ExcludeNext(deferredPath, typeFieldsMap(concretes)))])

\* one iteration of the loop over step2_discriminate (part_000:438-602)
FiveDiscriminate ==
    /\ impl = "five" /\ pc = "discriminate"
    /\ LET t == Head(step2_discriminate)
           s2 == Tail(step2_discriminate)
           fieldKey == fieldNodeKey(t.fieldNode)
           go(s1, s3, s5, st) ==
               FiveQueues(Drained(AfterDiscriminate(s1, s2, s3), st.d),
                          s1, s2, s3, step4_restage, s5, st,
                          completedFields, resultErrors)
           index == Len(deferredExprs)
           \* the slot allocation or the write through the parent's closure
           st1 == IF t.deferral.k = "some"
                  THEN ApplySet(St, t.deferral.set, t.fieldValue)
                  ELSE [St EXCEPT !.d = Append(@, [expr |-> t.fieldValue,
                                                   path |-> t.path])]
           setDeferredChild == IF t.deferral.k = "some" THEN t.deferral.set
                               ELSE SlotSetter(index)
           deferredPath == IF t.deferral.k = "some"
                           THEN Append(t.deferral.path, fieldKey)
                           ELSE <<IdxKey(index)>>
           namedFieldType == getNamedType(t.fieldType)
           selectedFieldNodes == SelectionOf(t.fieldNode)
           c == Len(st1.c) + 1
           st2 == [st1 EXCEPT !.c = Append(@,
                       expandChildrenContainer(t.path, t.fieldType, t.fieldValue,
                                               setDeferredChild))]
       IN IF ~isDeferredValue(t.fieldValue) /\ ~Includes(t.path, LIST_PLACEHOLDER)
          THEN go(step1_resolve,
                  Append(step3_validate,
                         [fieldType |-> t.fieldType, fieldValue |-> t.fieldValue,
                          parentType |-> t.parentType, fieldNode |-> t.fieldNode,
                          fieldNodes |-> t.fieldNodes, path |-> t.path]),
                  step5_revalidate, St)
          ELSE IF isLeafType(namedFieldType)
          THEN go(step1_resolve, step3_validate,
                  Append(step5_revalidate,
                         [fieldType |-> t.fieldType, fieldNode |-> t.fieldNode,
                          fieldNodes |-> t.fieldNodes, fieldPath |-> t.path,
                          parentType |-> t.parentType,
                          deferredPath |-> deferredPath,
                          shouldExcludeResult |-> t.shouldExcludeResult]),
                  st1)
          ELSE IF isAbstractType(namedFieldType)
          THEN go(step1_resolve
                    \o AbstractChildren(t, concreteTypesOf(namedFieldType.n), c,
                                        deferredPath),
                  step3_validate, step5_revalidate,
                  AbstractContainers(st1, t, setDeferredChild,
                                     concreteTypesOf(namedFieldType.n)))
          ELSE go(step1_resolve
                    \o ConcreteChildren(t, namedFieldType.n, c, selectedFieldNodes,
                                        deferredPath, NoExclude),
                  step3_validate, step5_revalidate, st2)
    /\ UNCHANGED <<called, returned, impl, sc, deferredValues, unvalidatedResult, result,
                   batches, thrown,
                   calls, restaged>>

\* one iteration of the loop over step3_validate (part_000:604-757)
FiveValidate ==
    /\ impl = "five" /\ pc = "validate"
    /\ LET t == Head(step3_validate)
           rest == Tail(step3_validate)
           fieldType == getNullableType(t.fieldType)
           go(s1, s3, cf, errs) ==
               FiveQueues(Drained(AfterValidate(s1, step2_discriminate, s3),
                                  deferredExprs),
                          s1, step2_discriminate, s3, step4_restage,
                          step5_revalidate, St, cf, errs)
           error(m) == go(step1_resolve, rest, completedFields,
                          Append(resultErrors, GqlError(m, t.path, t.fieldNode, "none")))
           complete(v, serialize) ==
               go(step1_resolve, rest,
                  Append(completedFields,
                         [path |-> t.path, value |-> v, fieldNode |-> t.fieldNode,
                          serialize |-> serialize]),
                  resultErrors)
       IN IF isNonNullType(t.fieldType) /\ isNullValue(t.fieldValue)
          THEN error("Cannot return null for non-nullable field")
          ELSE IF isNullValue(t.fieldValue) THEN complete(Null, "identity")
          ELSE IF isListType(fieldType)
          THEN IF t.fieldValue.k # "list"
               THEN error("Cannot return non-list value for list field")
               ELSE IF t.fieldValue.e = <<>>
               THEN complete(t.fieldValue, "identity")
               ELSE go(step1_resolve,
                       rest \o [i \in 1..Len(t.fieldValue.e) |->
                                   [fieldType |-> fieldType.of,
                                    fieldValue |-> t.fieldValue.e[i],
                                    parentType |-> t.parentType,
                                    fieldNode |-> t.fieldNode,
                                    fieldNodes |-> t.fieldNodes,
                                    path |-> Append(t.path, IdxKey(i - 1))]],
                       completedFields, resultErrors)
          ELSE IF t.fieldValue.k = "list" /\ ~isLeafType(fieldType)
          THEN error("Cannot return list value for non-list field")
          ELSE IF isLeafType(fieldType) THEN complete(t.fieldValue, fieldType.n)
          ELSE IF SelectionOf(t.fieldNode) = <<>>
          THEN error("At least one selection must be provided for a composite type")
          ELSE go(step1_resolve \o
                    buildUnresolvedFields(t.path, Append(t.parentType, fieldType.n),
                                          t.fieldValue, SelectionOf(t.fieldNode)),
                  rest, completedFields, resultErrors)
    /\ UNCHANGED <<called, returned, impl, sc, deferredValues, unvalidatedResult, result,
                   batches, thrown,
                   calls, restaged>>

\* backend.resolveDeferredValues when client.query fails: a ServiceError is
\* rethrown as GraphQLError(e.code, {originalError: e}), anything else as it is
BackendFailures == {"ServiceError", "NetworkError"}

resolveDeferredValuesThrows(raw) ==
    IF raw = "ServiceError"
    THEN [gql |-> TRUE, err |-> GqlError("internal_error", <<>>, "none", raw)]
    ELSE [gql |-> FALSE, message |-> "fetch failed", id |-> raw]

\* the error is wrapped without its originalError
OuterCatch_noOriginal(e) ==
    IF e.gql THEN e.err ELSE GqlError(e.message, <<>>, "none", "none")

\* err instanceof GraphQLError ? err : new GraphQLError(err.message, {originalError: err})
OuterCatch(e) ==
    IF e.gql THEN e.err ELSE GqlError(e.message, <<>>, "none", e.id)

PlainError(m) == [gql |-> FALSE, message |-> m, id |-> m]

\* the restage loop is skipped
AfterBatch_noRestage(s4, s5) ==
    IF s5 # <<>> THEN "revalidate" ELSE "endIteration"

\* the loops that follow the batch (part_000:764-861)
AfterBatch(s4, s5) ==
    IF s4 # <<>> THEN "restage"
    ELSE IF s5 # <<>> THEN "revalidate"
    ELSE "endIteration"

\* await resolveDeferredValues(deferredExprs, args) (part_000:760-762)
FiveBatch ==
    /\ impl = "five" /\ pc = "batch"
    /\ batches' = batches + 1
    /\ \/ /\ deferredValues' = EvalBatch(deferredExprs)
          /\ pc' = AfterBatch(step4_restage, step5_revalidate)
          /\ UNCHANGED <<result, thrown>>
       \/ \E raw \in BackendFailures :
             /\ result' = CaughtResult(OuterCatch(resolveDeferredValuesThrows(raw)))
             /\ pc' = "done"
             /\ thrown' = raw
             /\ UNCHANGED deferredValues
    /\ UNCHANGED <<called, returned, impl, sc, step1_resolve, step2_discriminate, step3_validate,
                   step4_restage, step5_revalidate, deferredExprs, containers,
                   completedFields, unvalidatedResult, resultErrors, calls,
                   restaged>>

Finished(pairsArg) ==
    CHOOSE out \in {
            [i \in 1..Len(pairs) |->
                [path |-> pairs[i].path, value |-> pairs[i].value, fieldNode |-> "none",
                 serialize |-> "identity"]]
        : pairs \in {pairsArg}} : TRUE

\* partition(list, predicate): the elements at the positions pass, then the others
partition(listArg, passArg) ==
    CHOOSE out \in {
            <<SelectSeqIdx(list, pass, 1), SelectSeqIdx(list, (1..Len(list)) \ pass, 1)>>
        : list \in {listArg}, pass \in {passArg}} : TRUE

\* pathToArray(from).slice(pathToArray(path).length).reduce(parent, parentType)
reducedParent(parentType, from, path) ==
    ParentHops(parentType, Len(Slice(from, Len(path), Len(from))))

\* the try block of part_000:767-800 after partition returned parts: what the
\* iteration leaves in step1_resolve, completedFields and resultErrors
Restaged(t, partsArg) ==
    CHOOSE out \in {
            IF \E i \in 1..Len(parts[2]) :
                   reducedParent(t.parentType, t.prevPath, parts[2][i].path) = <<>>
            THEN [q |-> step1_resolve, cf |-> completedFields \o Finished(parts[1]),
                  errs |-> Append(resultErrors,
                                  CaughtError(Thrown(FALSE, "Expected parent", <<>>),
                                              t.fieldNode, t.prevPath))]
            ELSE [q |-> step1_resolve \o
                          [i \in 1..Len(parts[2]) |->
                              [fieldNode |-> t.fieldNode, fieldNodes |-> t.fieldNodes,
                               parentType |-> reducedParent(t.parentType, t.prevPath,
                                                            parts[2][i].path),
                               prevPath |-> PathPrev(parts[2][i].path),
                               sourceValue |-> parts[2][i].value,
                               deferral |-> NoDeferral,
                               overrideFieldResolver |-> FALSE,
                               shouldExcludeResult |-> NoExclude]],
                  cf |-> completedFields \o Finished(parts[1]), errs |-> resultErrors]
        : parts \in {partsArg}} : TRUE

\* the try and catch of part_000:766-809, r being what expandFromObject
\* returned or threw
RestageExpanded(t, rArg) ==
    CHOOSE out \in {
            IF ~r.ok
            THEN [q |-> step1_resolve, cf |-> completedFields,
                  errs |-> Append(resultErrors, CaughtError(r, t.fieldNode, t.prevPath))]
            ELSE Restaged(t,
                          partition(r.pairs,
                                    {i \in 1..Len(r.pairs) :
                                        \/ ~equivalentPathKey(PathKey(PathPrev(r.pairs[i].path)),
                                                              PathKey(t.prevPath))
                                        \/ isNullValue(r.pairs[i].value)}))
        : r \in {rArg}} : TRUE

RestageQueues(s4, out) ==
    FiveQueues(AfterBatch(s4, step5_revalidate), out.q, step2_discriminate,
               step3_validate, s4, step5_revalidate, St, out.cf, out.errs)

\* one iteration of the loop over step4_restage (part_000:764-810)
FiveRestage ==
    /\ impl = "five" /\ pc = "restage"
    /\ \E t \in {Head(step4_restage)} :
          \E out \in {RestageExpanded(t,
                           expandFromObject(deferredValues, t.deferredPath,
                                            Append(t.prevPath, fieldNodeKey(t.fieldNode)),
                                            t.shouldExcludeResult, resultErrors))} :
             RestageQueues(Tail(step4_restage), out)
    /\ UNCHANGED <<called, returned, impl, sc, deferredValues, unvalidatedResult, result,
                   batches, thrown,
                   calls, restaged>>

\* the try block of part_000:815-848 after partition returned parts: what the
\* iteration leaves in step3_validate, completedFields and resultErrors
Revalidated(t, partsArg) ==
    CHOOSE out \in {
            IF \E i \in 1..Len(parts[2]) :
                   reducedParent(t.parentType, t.fieldPath, parts[2][i].path) = <<>>
            THEN [q |-> step3_validate, cf |-> completedFields \o Finished(parts[1]),
                  errs |-> Append(resultErrors,
                                  CaughtError(Thrown(FALSE, "Expected parent", <<>>),
                                              t.fieldNode, t.fieldPath))]
            ELSE [q |-> step3_validate \o
                          [i \in 1..Len(parts[2]) |->
                              [fieldNode |-> t.fieldNode, fieldNodes |-> t.fieldNodes,
                               fieldType |-> t.fieldType,
                               fieldValue |-> parts[2][i].value,
                               parentType |-> reducedParent(t.parentType, t.fieldPath,
                                                            parts[2][i].path),
                               path |-> parts[2][i].path]],
                  cf |-> completedFields \o Finished(parts[1]), errs |-> resultErrors]
        : parts \in {partsArg}} : TRUE

\* the try and catch of part_000:814-859, r being what expandFromObject
\* returned or threw
RevalidateExpanded(t, rArg) ==
    CHOOSE out \in {
            IF ~r.ok
            THEN [q |-> step3_validate, cf |-> completedFields,
                  errs |-> Append(resultErrors, CaughtError(r, t.fieldNode, t.fieldPath))]
            ELSE Revalidated(t,
                             partition(r.pairs,
                                       {i \in 1..Len(r.pairs) :
                                           \/ ~equivalentPathKey(PathKey(r.pairs[i].path),
                                                                 PathKey(t.fieldPath))
                                           \/ isNullValue(r.pairs[i].value)}))
        : r \in {rArg}} : TRUE

RevalidateQueues(s5, out) ==
    FiveQueues(AfterBatch(step4_restage, s5), step1_resolve, step2_discriminate,
               out.q, step4_restage, s5, St, out.cf, out.errs)

\* one iteration of the loop over step5_revalidate (part_000:812-861)
FiveRevalidate ==
    /\ impl = "five" /\ pc = "revalidate"
    /\ \E t \in {Head(step5_revalidate)} :
          \E out \in {RevalidateExpanded(t,
                           expandFromObject(deferredValues, t.deferredPath,
                                            t.fieldPath, t.shouldExcludeResult,
                                            resultErrors))} :
             RevalidateQueues(Tail(step5_revalidate), out)
    /\ UNCHANGED <<called, returned, impl, sc, deferredValues, unvalidatedResult, result,
                   batches, thrown,
                   calls, restaged>>

\* the arrays of the iteration are kept for the next one
FiveEndIteration_keepsBatch ==
    /\ impl = "five" /\ pc = "endIteration"
    /\ IF step4_restage # <<>>
       THEN /\ result' = CaughtResult(OuterCatch(PlainError("Expected no restage")))
            /\ pc' = "done"
            /\ UNCHANGED <<step4_restage, step5_revalidate, deferredExprs, containers>>
       ELSE IF step5_revalidate # <<>>
       THEN /\ result' = CaughtResult(OuterCatch(PlainError("Expected no backfill")))
            /\ pc' = "done"
            /\ UNCHANGED <<step4_restage, step5_revalidate, deferredExprs, containers>>
       ELSE /\ pc' = IF AfterResolve(step1_resolve, step2_discriminate,
                                     step3_validate) = "endDrain"
                     THEN "assemble"
                     ELSE AfterResolve(step1_resolve, step2_discriminate,
                                       step3_validate)
            \* the next iteration starts with fresh arrays; the closures over
            \* the old ones are unreachable
            /\ step4_restage' = <<>>
            /\ step5_revalidate' = <<>>
            /\ UNCHANGED <<deferredExprs, containers>>
            /\ UNCHANGED result
    /\ UNCHANGED <<called, returned, impl, sc, step1_resolve, step2_discriminate, step3_validate,
                   deferredValues, completedFields, unvalidatedResult,
                   resultErrors, batches, thrown, calls, restaged>>

\* the end of one iteration of the outer loop (part_000:864-871, 352-356)
FiveEndIteration ==
    /\ impl = "five" /\ pc = "endIteration"
    /\ IF step4_restage # <<>>
       THEN /\ result' = CaughtResult(OuterCatch(PlainError("Expected no restage")))
            /\ pc' = "done"
            /\ UNCHANGED <<step4_restage, step5_revalidate, deferredExprs, containers>>
       ELSE IF step5_revalidate # <<>>
       THEN /\ result' = CaughtResult(OuterCatch(PlainError("Expected no backfill")))
            /\ pc' = "done"
            /\ UNCHANGED <<step4_restage, step5_revalidate, deferredExprs, containers>>
       ELSE /\ pc' = IF AfterResolve(step1_resolve, step2_discriminate,
                                     step3_validate) = "endDrain"
                     THEN "assemble"
                     ELSE AfterResolve(step1_resolve, step2_discriminate,
                                       step3_validate)
            \* the next iteration starts with fresh arrays; the closures over
            \* the old ones are unreachable
            /\ step4_restage' = <<>>
            /\ step5_revalidate' = <<>>
            /\ deferredExprs' = <<>>
            /\ containers' = <<>>
            /\ UNCHANGED result
    /\ UNCHANGED <<called, returned, impl, sc, step1_resolve, step2_discriminate, step3_validate,
                   deferredValues, completedFields, unvalidatedResult,
                   resultErrors, batches, thrown, calls, restaged>>

-----------------------------------------------------------------------------
(* Result assembly and error dedupe of part_000:873-937 *)

\* the walk of one completed piece down resultData: st is "ok", "inner" (the
\* final assignment threw inside the try) or "outer" (a throw outside it);
\* write is FALSE when serialize threw and nothing is assigned
RECURSIVE SetIn(_, _, _, _)
SetIn(containerArg, path, value, write) ==
    CHOOSE out \in {
            LET key == Head(path)
                c0 == IF ~Falsy(container) THEN container
                      ELSE IF IsIdx(key) THEN ListV(<<>>) ELSE ObjV(<<>>)
                c1 == IF IsIdx(key) /\ c0.k = "list" /\ Len(c0.e) <= IdxOf(key)
                      THEN ListV(c0.e \o [i \in 1..(IdxOf(key) + 1 - Len(c0.e)) |-> Null])
                      ELSE c0
                assign(v) ==
                    IF c1.k = "obj" THEN Put(c1, key, v)
                    ELSE IF c1.k = "list" /\ IsIdx(key)
                    THEN ListV([c1.e EXCEPT ![IdxOf(key) + 1] = v])
                    ELSE c1
                sub == SetIn(At(c1, key), Tail(path), value, write)
            IN IF IsIdx(key) /\ c0.k # "list"
               THEN [st |-> "outer", v |-> container, message |-> "Expected array"]
               ELSE IF Len(path) = 1
               THEN IF ~write THEN [st |-> "ok", v |-> c1, message |-> ""]
                    ELSE IF c1.k \in {"obj", "list"}
                    THEN [st |-> "ok", v |-> assign(value), message |-> ""]
                    ELSE [st |-> "inner", v |-> c1,
                          message |-> "Cannot create property"]
               ELSE IF c1.k \notin {"obj", "list"}
               THEN [st |-> "outer", v |-> container, message |-> "Cannot create property"]
               ELSE IF c1.k = "list" /\ ~IsIdx(key)
               THEN [st |-> "ok", v |-> c1, message |-> ""]
               ELSE [st |-> sub.st, v |-> assign(sub.v), message |-> sub.message]
        : container \in {containerArg}} : TRUE

RECURSIVE AssembleFrom(_, _, _, _)
AssembleFrom(cf, i, resultDataArg, errsArg) ==
    CHOOSE out \in {
            IF i > Len(cf) THEN [ok |-> TRUE, data |-> resultData, errors |-> errs]
            ELSE LET e == cf[i]
                     ser == IF e.serialize = "identity"
                            THEN [ok |-> TRUE, v |-> e.value]
                            ELSE IF e.serialize = "String"
                            THEN SerializeString(e.value)
                            ELSE Serialize(e.value)
                     r == SetIn(resultData, e.path, IF ser.ok THEN ser.v ELSE Null, ser.ok)
                     pushed(m) == Append(errs, GqlError(m, e.path, e.fieldNode, m))
                 IN IF e.path = <<>> THEN [ok |-> FALSE, message |-> "Expected parent"]
                    ELSE IF r.st = "outer" THEN [ok |-> FALSE, message |-> r.message]
                    ELSE IF ~ser.ok THEN AssembleFrom(cf, i + 1, r.v, pushed(ser.message))
                    ELSE IF r.st = "inner" THEN AssembleFrom(cf, i + 1, r.v, pushed(r.message))
                    ELSE AssembleFrom(cf, i + 1, r.v, errs)
        : resultData \in {resultDataArg}, errs \in {errsArg}} : TRUE

\* the dedupe loop: a fingerprint is added only by the right operand of &&,
\* which runs only when the set already has it
RECURSIVE DedupeFrom(_, _, _, _)
DedupeFrom(errorsArg, i, fingerprintsArg, outArg) ==
    CHOOSE out \in {
            IF i > Len(errors) THEN out
            ELSE IF Fingerprint(errors[i]) \in fingerprints
                 THEN DedupeFrom(errors, i + 1,
                                 fingerprints \cup {Fingerprint(errors[i])}, out)
                 ELSE DedupeFrom(errors, i + 1, fingerprints, Append(out, errors[i]))
        : errors \in {errorsArg}, fingerprints \in {fingerprintsArg}, out \in {outArg}} : TRUE

DedupeErrors(errors) == DedupeFrom(errors, 1, {}, <<>>)

FiveAssemble ==
    /\ impl = "five" /\ pc = "assemble"
    /\ \E r \in {AssembleFrom(completedFields, 1, ObjV(<<>>), resultErrors)} :
          IF ~r.ok
          THEN /\ result' = CaughtResult(OuterCatch(PlainError(r.message)))
               /\ UNCHANGED resultErrors
          ELSE /\ result' = [rejected |-> FALSE, hasData |-> TRUE,
                             data |-> IF r.data.e # <<>> THEN r.data ELSE Null,
                             errors |-> DedupeErrors(r.errors)]
               /\ resultErrors' = r.errors
    /\ pc' = "done"
    /\ UNCHANGED <<called, returned, impl, sc, step1_resolve, step2_discriminate, step3_validate,
                   step4_restage, step5_revalidate, deferredExprs, containers,
                   deferredValues, completedFields, unvalidatedResult,
                   batches, thrown,
                   calls, restaged>>

-----------------------------------------------------------------------------
(* The class Execution, src/executor.ts:261-1185 *)

NoSetter == [k |-> "none"]

isCompositeOutputType(t) == isObjectType(getNamedType(t))

\* typeof v === "object" (which null is)
TypeofObject(v) == v.k \in {"obj", "list", "null"}

\* #setCompletedPiece(path, value) from the node the remaining path starts
\* at; ok is FALSE when it throws
RECURSIVE setCompletedPiece(_, _, _)
RECURSIVE SetPieceElements(_, _, _, _)

SetPieceChild(node, key, path, value) ==
    LET old == At(node, key)
        child == IF TypeofObject(old) THEN old
                 ELSE IF Len(path) >= 3 /\ IsIdx(path[2]) THEN ListV(<<>>)
                 ELSE ObjV(<<>>)
        sub == setCompletedPiece(child, Tail(path), value)
    IN IF ~sub.ok THEN sub
       ELSE [ok |-> TRUE,
             v |-> IF node.k = "list"
                   THEN ListV([node.e EXCEPT ![IdxOf(key) + 1] = sub.v])
                   ELSE Put(node, key, sub.v)]

SetPieceElements(node, j, path, value) ==
    IF j >= Len(node.e) THEN [ok |-> TRUE, v |-> node]
    ELSE LET r == SetPieceChild(node, IdxKey(j), path, value)
         IN IF ~r.ok THEN r ELSE SetPieceElements(r.v, j + 1, path, value)

setCompletedPiece(node, path, value) ==
    LET key == Head(path)
        padded == IF node.k = "list" /\ IsIdx(key) /\ IdxOf(key) >= Len(node.e)
                  THEN ListV(node.e \o [i \in 1..(IdxOf(key) + 1 - Len(node.e)) |-> Undef])
                  ELSE node
    IN IF Len(path) = 1
       THEN [ok |-> TRUE,
             v |-> IF node.k = "obj" THEN Put(node, key, value)
                   ELSE IF node.k = "list" /\ IsIdx(key)
                   THEN ListV([padded.e EXCEPT ![IdxOf(key) + 1] = value])
                   ELSE node]
       ELSE IF node = Null \/ hasErrorMessage(node) THEN [ok |-> TRUE, v |-> node]
       ELSE IF key = LIST_PLACEHOLDER
       THEN IF node.k # "list"
            THEN [ok |-> FALSE, message |-> "Expected array but got non-array value"]
            ELSE SetPieceElements(node, 0, path, value)
       ELSE IF IsIdx(key)
       THEN IF node.k # "list"
            THEN [ok |-> FALSE, message |-> "Expected array but got non-array value"]
            ELSE SetPieceChild(padded, key, path, value)
       ELSE IF node.k = "list"
       THEN [ok |-> FALSE, message |-> "Expected object but got array value"]
       ELSE SetPieceChild(node, key, path, value)

\* The state the resolve stage threads through its calls:
\*   c, d    the backend's containers and #step2_evaluate
\*   s3      #step3_restage
\*   errs    #resultErrors
\*   calls, restaged   the history variables
\* The concurrent branches of Promise.all are taken one after the other, in
\* the order of the array; each writes its own slots and paths.
ExecState ==
    [c |-> containers, d |-> deferredExprs, s3 |-> step4_restage,
     errs |-> resultErrors, calls |-> calls, restaged |-> restaged]

RECURSIVE resolveObjectField(_, _, _, _, _, _, _)
RECURSIVE handleResolvedValue(_, _, _, _, _, _, _, _)
RECURSIVE resolveObjectFieldsFrom(_, _, _, _, _, _, _)
RECURSIVE HandleElementsFrom(_, _, _, _, _, _, _, _)
RECURSIVE ResolveChildrenFrom(_, _, _, _, _, _, _)

\* #resolveObjectField (executor.ts:782-858)
resolveObjectField(es, sourceValue, objectType, fieldNodes, fieldNodeIndex, objectPath, setDeferredChild) ==
    LET fieldNode == fieldNodes[fieldNodeIndex]
        fieldPath == Append(objectPath, fieldNodeKey(fieldNode))
        source == wrapSourceValue(sourceValue)
        r == ResolveField(fieldNode, source)
        es0 == [es EXCEPT !.calls = Append(@, CallRecord(fieldPath, source, r))]
        resolvedValue == unwrapValue(r.v)
        literalChild == setDeferredChild.k # "none" /\ ~isDeferredValue(resolvedValue)
        index == Len(es0.d)
        es1 == IF literalChild
               THEN [es0 EXCEPT !.d = Append(@, [expr |-> Null, path |-> fieldPath])]
               ELSE es0
        h == handleResolvedValue(es1, resolvedValue, FieldType(fieldNode), fieldNodes,
                                 fieldNodeIndex, objectType, fieldPath, setDeferredChild)
        failed(state, e) ==
            [es |-> [state EXCEPT !.errs = Append(@, CaughtError(e, fieldNode, fieldPath))],
             v |-> Null]
    IN IF fieldNode \notin FieldsOf(objectType)
       THEN failed(es, Thrown(FALSE, "Cannot read properties of undefined", <<>>))
       ELSE CASE r.k = "ok" ->
                   IF literalChild
                   THEN [es |-> [h.es EXCEPT !.d[index + 1].expr = h.v], v |-> Null]
                   ELSE h
              [] r.k = "throw" -> failed(es0, Thrown(r.gql, r.m, r.path))
              [] OTHER ->
                   [es |-> [es0 EXCEPT
                              !.s3 = Append(@, [fieldNodes |-> fieldNodes,
                                                fieldNodeIndex |-> fieldNodeIndex,
                                                parentType |-> objectType,
                                                parentPath |-> objectPath]),
                              !.restaged = Append(@, fieldPath)],
                    v |-> Null]

\* #resolveObjectFields (executor.ts:758-780), from the field node i on
resolveObjectFieldsFrom(es, sourceValue, objectType, fieldNodes, i, path, acc) ==
    IF i > Len(fieldNodes) THEN [es |-> es, v |-> acc]
    ELSE LET r == resolveObjectField(es, sourceValue, objectType, fieldNodes, i,
                                     path, NoSetter)
         IN resolveObjectFieldsFrom(r.es, sourceValue, objectType, fieldNodes, i + 1,
                                    path, Put(acc, fieldNodeKey(fieldNodes[i]), r.v))

\* the elements of a literal list (executor.ts:966-978)
HandleElementsFrom(es, elems, i, elemType, fieldNodes, fieldNodeIndex, parentType, path) ==
    IF i > Len(elems) THEN [es |-> es, v |-> <<>>]
    ELSE LET h == handleResolvedValue(es, elems[i], elemType, fieldNodes,
                                      fieldNodeIndex, parentType,
                                      Append(path, IdxKey(i - 1)), NoSetter)
             rest == HandleElementsFrom(h.es, elems, i + 1, elemType, fieldNodes,
                                        fieldNodeIndex, parentType, path)
         IN [es |-> rest.es, v |-> <<h.v>> \o rest.v]

\* the children expandChildren returns, each resolved with its setData
ResolveChildrenFrom(es, c, sourceValue, objectType, fieldNodes, i, childPath) ==
    IF i > Len(fieldNodes) THEN es
    ELSE ResolveChildrenFrom(
             resolveObjectField(es, sourceValue, objectType, fieldNodes, i, childPath,
                                ChildSetter(c, fieldNodeKey(fieldNodes[i]))).es,
             c, sourceValue, objectType, fieldNodes, i + 1, childPath)

\* #handleResolvedValue (executor.ts:860-1016)
handleResolvedValue(es, resolvedValue, valueType, fieldNodes, fieldNodeIndex, parentType, path, setDeferredChild) ==
    LET fieldNode == fieldNodes[fieldNodeIndex]
        index == Len(es.d)
        es1 == IF setDeferredChild.k # "none"
               THEN ApplySet(es, setDeferredChild, resolvedValue)
               ELSE [es EXCEPT !.d = Append(@, [expr |-> resolvedValue, path |-> path])]
        setter == IF setDeferredChild.k # "none" THEN setDeferredChild
                  ELSE SlotSetter(index)
        c == Len(es1.c) + 1
        es2 == [es1 EXCEPT !.c = Append(@, TypedContainer(path, resolvedValue,
                                                          valueType, setter))]
        t == getNullableType(valueType)
        elems == HandleElementsFrom(es, resolvedValue.e, 1, getNullableType(t.of),
                                    fieldNodes, fieldNodeIndex, parentType, path)
        fields == resolveObjectFieldsFrom(es, resolvedValue, t.n,
                                          SelectionOf(fieldNode), 1, path, ObjV(<<>>))
    IN IF isDeferredValue(resolvedValue)
       THEN IF ~isCompositeOutputType(valueType) THEN [es |-> es1, v |-> Undef]
            ELSE [es |-> ResolveChildrenFrom(es2, c, DVar(path),
                                             getNamedType(valueType).n,
                                             SelectionOf(fieldNode), 1,
                                             expandChildrenPath(path, valueType)),
                  v |-> Null]
       ELSE IF isNullValue(resolvedValue) THEN [es |-> es, v |-> Null]
       ELSE IF isListType(t)
       THEN IF resolvedValue.k # "list"
            THEN [es |-> [es EXCEPT !.errs = Append(@,
                            GqlError("Cannot return non-list value for list field",
                                     path, fieldNode, "none"))],
                  v |-> Null]
            ELSE [es |-> elems.es, v |-> ListV(elems.v)]
       ELSE IF isLeafType(t) THEN [es |-> es, v |-> resolvedValue]
       ELSE [es |-> fields.es, v |-> Put(fields.v, "__typename", StrV(t.n))]

\* #getValidatedValueRecursive and #getValidatedObjectValue
\* (executor.ts:487-688): thrown is "" or the message of the rejection
RECURSIVE getValidatedValueRecursive(_, _, _, _, _, _, _)
RECURSIVE ValidateFieldsFrom(_, _, _, _, _, _, _)
RECURSIVE ValidateElementsFrom(_, _, _, _, _, _, _, _)

Validated(v, errs) == [v |-> v, errs |-> errs, thrown |-> ""]

\* the fields of an object from the field node i on; acc are the
\* [fieldNode, fieldType, value] triples so far
ValidateFieldsFrom(objectValue, objectType, fieldNodes, i, path, errs, acc) ==
    IF i > Len(fieldNodes)
    THEN IF \E j \in 1..Len(acc) : isNonNullType(acc[j].t) /\ isNullValue(acc[j].v)
         THEN Validated(Null, errs)
         ELSE Validated(ObjV([j \in 1..Len(acc) |-> <<acc[j].key, acc[j].v>>]), errs)
    ELSE LET fieldNode == fieldNodes[i]
             key == fieldNodeKey(fieldNode)
             fieldPath == Append(path, key)
             r == getValidatedValueRecursive(At(objectValue, key), FieldType(fieldNode),
                                             fieldNodes, i, objectType, fieldPath, errs)
             value == IF r.thrown = "" THEN r.v ELSE Null
             errs1 == IF r.thrown = "" THEN r.errs
                      ELSE Append(r.errs, GqlError(r.thrown, fieldPath, fieldNode, r.thrown))
         IN ValidateFieldsFrom(objectValue, objectType, fieldNodes, i + 1, path, errs1,
                               Append(acc, [key |-> key, t |-> FieldType(fieldNode),
                                            v |-> value]))

getValidatedObjectValue(objectValue, objectType, fieldNodes, path, errs) ==
    ValidateFieldsFrom(objectValue, objectType, fieldNodes, 1, path, errs, <<>>)

\* the elements of a list: every element is validated; the first rejection
\* is the rejection of Promise.all
ValidateElementsFrom(elems, i, elemType, fieldNodes, fieldNodeIndex, parentType, path, errs) ==
    IF i > Len(elems) THEN [v |-> <<>>, errs |-> errs, thrown |-> ""]
    ELSE LET r == getValidatedValueRecursive(elems[i], elemType, fieldNodes,
                                             fieldNodeIndex, parentType,
                                             Append(path, IdxKey(i - 1)), errs)
             rest == ValidateElementsFrom(elems, i + 1, elemType, fieldNodes,
                                          fieldNodeIndex, parentType, path, r.errs)
         IN [v |-> <<r.v>> \o rest.v, errs |-> rest.errs,
             thrown |-> IF r.thrown # "" THEN r.thrown ELSE rest.thrown]

getValidatedValueRecursive(fieldValue, fieldType, fieldNodes, fieldNodeIndex, parentType, path, errs) ==
    LET fieldNode == fieldNodes[fieldNodeIndex]
        error(m) == Validated(Null, Append(errs, GqlError(m, path, fieldNode, "none")))
        elems == ValidateElementsFrom(fieldValue.e, 1, fieldType.of, fieldNodes,
                                      fieldNodeIndex, parentType, path, errs)
        ser == Serialize(fieldValue)
    IN IF hasErrorMessage(fieldValue) THEN error(getErrorMessage(fieldValue).v)
       ELSE IF isNonNullType(fieldType)
       THEN IF isNullValue(fieldValue)
            THEN error("Cannot return null for non-nullable field")
            ELSE getValidatedValueRecursive(fieldValue, fieldType.of, fieldNodes,
                                            fieldNodeIndex, parentType, path, errs)
       ELSE IF isNullValue(fieldValue) THEN Validated(Null, errs)
       ELSE IF isListType(fieldType)
       THEN IF fieldValue.k # "list"
            THEN error("Cannot return non-list value for list field")
            ELSE IF fieldValue.e = <<>> THEN Validated(fieldValue, errs)
            ELSE IF elems.thrown # ""
            THEN [v |-> Null, errs |-> elems.errs, thrown |-> elems.thrown]
            ELSE IF /\ getNullableType(fieldType.of) # fieldType.of
                    /\ \E i \in 1..Len(elems.v) : isNullValue(elems.v[i])
            THEN Validated(Null, elems.errs)
            ELSE Validated(ListV(SelectSeqIdx(elems.v,
                               {i \in 1..Len(elems.v) : elems.v[i] # Null}, 1)),
                           elems.errs)
       ELSE IF isLeafType(fieldType)
       THEN IF ser.ok THEN Validated(ser.v, errs)
            ELSE [v |-> Null, errs |-> errs, thrown |-> ser.message]
       ELSE getValidatedObjectValue(fieldValue, fieldType.n, SelectionOf(fieldNode),
                                    path, errs)

\* one round of the loop over #step3_restage (executor.ts:399-452): the
\* walk of one entry down #unvalidatedResult
RECURSIVE RestageWalk(_, _, _, _)
RestageWalk(field, sourceValue, path, i) ==
    IF i >= Len(path)
    THEN [s1 |-> <<[sourceValue |-> sourceValue, parentType |-> field.parentType,
                    fieldNodes |-> field.fieldNodes,
                    fieldNodeIndex |-> field.fieldNodeIndex,
                    parentPath |-> field.parentPath]>>,
          s3 |-> <<>>]
    ELSE IF sourceValue = Null \/ hasErrorMessage(sourceValue)
    THEN [s1 |-> <<>>, s3 |-> <<>>]
    ELSE IF path[i + 1] = LIST_PLACEHOLDER
    THEN [s1 |-> <<>>,
          s3 |-> IF sourceValue.k # "list" THEN <<>>
                 ELSE [j \in 1..Len(sourceValue.e) |->
                          [field EXCEPT !.parentPath =
                              Slice(path, 0, i) \o <<IdxKey(j - 1)>>
                                \o Slice(path, i + 1, Len(path))]]]
    ELSE IF At(sourceValue, path[i + 1]) = Undef THEN [s1 |-> <<>>, s3 |-> <<>>]
    ELSE RestageWalk(field, At(sourceValue, path[i + 1]), path, i + 1)

RECURSIVE RestageAll(_, _, _, _)
RestageAll(entries, i, next, s1) ==
    IF i > Len(entries)
    THEN IF next = <<>> THEN s1 ELSE RestageAll(next, 1, <<>>, s1)
    ELSE LET w == RestageWalk(entries[i], unvalidatedResult, entries[i].parentPath, 0)
         IN RestageAll(entries, i + 1, next \o w.s3, s1 \o w.s1)

\* new Execution(backend, args, hooks) (executor.ts:295-347, 1210-1231)
ExecSetup ==
    /\ impl = "exec" /\ pc = "setup"
    /\ IF SetupThrows.ok
       THEN /\ step1_resolve' =
                  [i \in 1..Len(RootSelection) |->
                      [sourceValue |-> Undef, parentType |-> "Query",
                       fieldNodes |-> RootSelection, fieldNodeIndex |-> i,
                       parentPath |-> <<>>]]
            /\ unvalidatedResult' = ObjV(<<>>)
            /\ pc' = IF RootSelection # <<>> THEN "resolve" ELSE "getResult"
            /\ result' = result
       ELSE /\ result' = Rejected(SetupThrows)
            /\ pc' = "done"
            /\ UNCHANGED <<step1_resolve, unvalidatedResult>>
    /\ UNCHANGED <<called, returned, impl, sc, step2_discriminate, step3_validate, step4_restage,
                   step5_revalidate, deferredExprs, containers, deferredValues,
                   completedFields, resultErrors, batches, thrown, calls,
                   restaged>>

\* the fields of #step1_resolve resolved in turn: the state, and the
\* [path, value] pairs of executor.ts:351-370
RECURSIVE ExecResolveFrom(_, _, _)
ExecResolveFrom(es, i, acc) ==
    IF i > Len(step1_resolve) THEN [es |-> es, pieces |-> acc]
    ELSE LET f == step1_resolve[i]
             r == resolveObjectField(es, f.sourceValue, f.parentType, f.fieldNodes,
                                     f.fieldNodeIndex, f.parentPath, NoSetter)
         IN ExecResolveFrom(r.es, i + 1,
                Append(acc, [path |-> Append(f.parentPath,
                                             fieldNodeKey(f.fieldNodes[f.fieldNodeIndex])),
                             value |-> r.v]))

\* #setCompletedPiece for each piece in turn
RECURSIVE SetPieces(_, _, _)
SetPieces(root, pieces, i) ==
    IF i > Len(pieces) THEN [ok |-> TRUE, v |-> root]
    ELSE LET r == setCompletedPiece(root, pieces[i].path, pieces[i].value)
         IN IF ~r.ok THEN r ELSE SetPieces(r.v, pieces, i + 1)

AfterEvaluate(s3, s1) ==
    IF s3 # <<>> THEN "restage"
    ELSE IF s1 # <<>> THEN "resolve"
    ELSE "getResult"

\* the resolve stage of one iteration of execute() (executor.ts:350-372)
ExecResolve ==
    /\ impl = "exec" /\ pc = "resolve"
    /\ LET r == ExecResolveFrom(ExecState, 1, <<>>)
           set == SetPieces(unvalidatedResult, r.pieces, 1)
       IN /\ step1_resolve' = <<>>
          /\ containers' = r.es.c
          /\ deferredExprs' = r.es.d
          /\ step4_restage' = r.es.s3
          /\ resultErrors' = r.es.errs
          /\ calls' = r.es.calls
          /\ restaged' = r.es.restaged
          /\ IF set.ok
             THEN /\ unvalidatedResult' = set.v
                  /\ pc' = IF r.es.d # <<>> THEN "batch"
                           ELSE AfterEvaluate(r.es.s3, <<>>)
                  /\ UNCHANGED result
             ELSE /\ result' = CaughtResult(OuterCatch(PlainError(set.message)))
                  /\ pc' = "done"
                  /\ UNCHANGED unvalidatedResult
    /\ UNCHANGED <<called, returned, impl, sc, step2_discriminate, step3_validate, step5_revalidate,
                   deferredValues, completedFields, batches, thrown>>

\* the entries are applied last to first
EvaluatedEntries_reversed(entries) ==
    [i \in 1..Len(entries) |->
        [path |-> entries[Len(entries) + 1 - i].path,
         value |-> IF isDeferredValue(entries[Len(entries) + 1 - i].expr)
                   THEN Eval(entries[Len(entries) + 1 - i].expr, EmptyEnv)
                   ELSE entries[Len(entries) + 1 - i].expr]]

\* the entries of #step2_evaluate after the batch: the deferred ones are
\* replaced by what the backend returned for them
EvaluatedEntries(entries) ==
    [i \in 1..Len(entries) |->
        [path |-> entries[i].path,
         value |-> IF isDeferredValue(entries[i].expr)
                   THEN Eval(entries[i].expr, EmptyEnv)
                   ELSE entries[i].expr]]

\* the evaluate stage (executor.ts:374-397)
ExecEvaluate ==
    /\ impl = "exec" /\ pc = "batch"
    /\ batches' = batches + 1
    /\ \/ LET set == SetPieces(unvalidatedResult, EvaluatedEntries(deferredExprs), 1)
          IN /\ deferredValues' = ListV([i \in 1..Len(deferredExprs) |->
                                           EvaluatedEntries(deferredExprs)[i].value])
             /\ deferredExprs' = <<>>
             /\ containers' = <<>>
             /\ UNCHANGED thrown
             /\ IF set.ok
                THEN /\ unvalidatedResult' = set.v
                     /\ pc' = AfterEvaluate(step4_restage, step1_resolve)
                     /\ UNCHANGED result
                ELSE /\ result' = CaughtResult(OuterCatch(PlainError(set.message)))
                     /\ pc' = "done"
                     /\ UNCHANGED unvalidatedResult
       \/ \E raw \in BackendFailures :
             /\ result' = CaughtResult(OuterCatch(resolveDeferredValuesThrows(raw)))
             /\ pc' = "done"
             /\ thrown' = raw
             /\ UNCHANGED <<deferredValues, deferredExprs, containers,
                            unvalidatedResult>>
    /\ UNCHANGED <<called, returned, impl, sc, step1_resolve, step2_discriminate, step3_validate,
                   step4_restage, step5_revalidate, completedFields, resultErrors,
                   calls, restaged>>

\* the restage loop (executor.ts:399-452)
ExecRestage ==
    /\ impl = "exec" /\ pc = "restage"
    /\ step1_resolve' = RestageAll(step4_restage, 1, <<>>, step1_resolve)
    /\ step4_restage' = <<>>
    /\ pc' = IF step1_resolve' # <<>> THEN "resolve" ELSE "getResult"
    /\ UNCHANGED <<called, returned, impl, sc, step2_discriminate, step3_validate, step5_revalidate,
                   deferredExprs, containers, deferredValues, completedFields,
                   unvalidatedResult, resultErrors, result, batches, thrown,
                   calls,
                   restaged>>

\* getResult() (executor.ts:456-485)
ExecGetResult ==
    /\ impl = "exec" /\ pc = "getResult"
    /\ LET r == getValidatedObjectValue(unvalidatedResult, "Query", RootSelection,
                                        <<>>, resultErrors)
       IN /\ resultErrors' = r.errs
          /\ result' = [rejected |-> FALSE, hasData |-> TRUE, data |-> r.v,
                        errors |-> DedupeErrors(r.errs)]
    /\ pc' = "done"
    /\ UNCHANGED <<called, returned, impl, sc, step1_resolve, step2_discriminate, step3_validate,
                   step4_restage, step5_revalidate, deferredExprs, containers,
                   deferredValues, completedFields, unvalidatedResult,
                   batches, thrown,
                   calls, restaged>>

Exec == ExecSetup \/ ExecResolve \/ ExecEvaluate \/ ExecRestage \/ ExecGetResult

Five ==
    \/ FiveSetup \/ FiveResolve \/ FiveDiscriminate \/ FiveValidate
    \/ FiveBatch \/ FiveRestage \/ FiveRevalidate \/ FiveEndIteration
    \/ FiveAssemble

Next == Five \/ Exec

Spec == Init /\ [][Next]_vars

-----------------------------------------------------------------------------
(* Properties of the executor *)

\* the execution is over and execute has returned a result, not rejected
Returned == pc = "done" /\ ~result.rejected

CallIdx == 1..Len(calls)

\* no resolver invocation awaited a wrapped value that was still deferred
NoAwait == \A i \in CallIdx : calls[i].ret # "next"

SomeDeferred == \E i \in CallIdx : calls[i].ret = "deferred"

\* C1: in an execution in which no resolver awaits a wrapped source value,
\* resolveDeferredValues is called exactly once if at least one resolver
\* returned a deferred expression and zero times if none did, however many
\* fields or nesting levels returned deferred expressions
C1_OneBatch ==
    (pc = "done" /\ NoAwait) => batches = (IF SomeDeferred THEN 1 ELSE 0)

\* the one batch of an execution whose deferred expressions come from three
\* resolvers on two nesting levels or more
C1_Witness ==
    /\ Returned /\ NoAwait /\ result.hasData /\ batches = 1
    /\ \E i, j, k \in CallIdx :
           /\ i # j /\ j # k /\ i # k
           /\ calls[i].ret = "deferred" /\ calls[j].ret = "deferred"
           /\ calls[k].ret = "deferred"
           /\ Len(calls[i].path) = 1 /\ Len(calls[j].path) = 1
           /\ Len(calls[k].path) > 1

\* the execution without a deferred expression, which makes no batch
C1_WitnessNone ==
    Returned /\ result.hasData /\ calls # <<>> /\ ~SomeDeferred /\ batches = 0

\* a response path with every list index replaced by the placeholder
NormPath(p) == [i \in 1..Len(p) |-> IF IsIdx(p[i]) THEN LIST_PLACEHOLDER ELSE p[i]]

\* the objects of the response that the path p, read from position k on,
\* leads to; a placeholder of p stands for every element of the list
RECURSIVE ObjectsAt(_, _, _)
ObjectsAt(v, p, k) ==
    IF k > Len(p) THEN (IF v.k = "obj" THEN {v} ELSE {})
    ELSE IF v.k = "list"
    THEN IF p[k] = LIST_PLACEHOLDER
         THEN UNION {ObjectsAt(v.e[j], p, k + 1) : j \in 1..Len(v.e)}
         ELSE ObjectsAt(At(v, p[k]), p, k + 1)
    ELSE IF HasKey(v, p[k]) THEN ObjectsAt(At(v, p[k]), p, k + 1)
    ELSE {}

\* invocation j runs the resolver of invocation i again, one batch later,
\* on a materialized object
Reinvokes(j, i) ==
    /\ j > i
    /\ NormPath(calls[j].path) = NormPath(calls[i].path)
    /\ calls[j].stage = calls[i].stage + 1
    /\ calls[j].source.k = "obj"

AwaitedError(e, i) ==
    /\ NormPath(e.path) = NormPath(calls[i].path)
    /\ e.message = "expected deferral value"

IsPrefix(p, q) == Len(p) <= Len(q) /\ \A i \in 1..Len(p) : p[i] = q[i]

\* the fields sent to restage, as response paths without list indices
RestagedFields == {NormPath(restaged[i]) : i \in 1..Len(restaged)}

\* the restaged fields on the response path from the root down to field r
RestagedAbove(r) == {q \in RestagedFields : IsPrefix(q, r)}

\* the largest number of restaged fields nested on one root-to-leaf path
RestageDepth ==
    IF RestagedFields = {} THEN 0
    ELSE CHOOSE n \in 1..Cardinality(RestagedFields) :
             /\ \E r \in RestagedFields : Cardinality(RestagedAbove(r)) = n
             /\ \A r \in RestagedFields : Cardinality(RestagedAbove(r)) <= n

\* C3: the number of resolveDeferredValues calls is never more than 1 plus
\* the largest number of restaged fields nested on a single root-to-leaf
\* response path; restaged sibling fields add no batch call
C3_BatchBound == batches <= 1 + RestageDepth

\* 3 batch calls serve two nested restaged fields and a restaged sibling
C3_Witness ==
    /\ Returned /\ result.hasData /\ batches = 3 /\ RestageDepth = 2
    /\ Cardinality(RestagedFields) = 3
    /\ \E q, r \in RestagedFields : q # r /\ Len(q) = Len(r)

NonNullMessage == "Cannot return null for non-nullable field"

\* the resolver of a returns objects, one or a list of them
AIsObjects == getNamedType(sc.ta) = ObjT /\ sc.ra \in {"lit", "def"}

\* the response paths of the NonNull fields whose computed value is null,
\* literal (null) or materialized from a batch (defnull)
NullFields ==
    (IF isNonNullType(sc.ta) /\ sc.ra \in {"null", "defnull"}
     THEN {<<"a">>} ELSE {})
    \cup
    (IF isNonNullType(sc.tx) /\ sc.rx \in {"null", "defnull"} /\ AIsObjects
     THEN IF isListType(getNullableType(sc.ta))
          THEN {<<"a", IdxKey(j - 1), "x">> :
                    j \in {j \in 1..ListLen : ~(sc.nulls /\ j = 2)}}
          ELSE {<<"a", "x">>}
     ELSE {})

NonNullErrorsAt(p) ==
    {n \in 1..Len(result.errors) :
        result.errors[n].path = p /\ result.errors[n].message = NonNullMessage}

\* the nearest nullable ancestor of the field at p is null in data: the list
\* element, the object a, or data itself
NullableAncestorIsNull(p) ==
    IF Len(p) = 3 THEN At(At(result.data, "a"), p[2]) = Null
    ELSE IF Len(p) = 2 /\ ~isNonNullType(sc.ta) THEN At(result.data, "a") = Null
    ELSE result.data = Null

\* C4: for every NonNull field whose computed value is null the result has
\* exactly one error 'Cannot return null for non-nullable field' at the
\* field's path and the field's nearest nullable ancestor is null in data
\* (data itself when there is none), also when sibling fields have values
C4_NullPropagates ==
    (Returned /\ result.hasData) =>
        \A p \in NullFields :
            /\ Cardinality(NonNullErrorsAt(p)) = 1
            /\ NullableAncestorIsNull(p)

\* a state of the failure C4 is about: the five-queue scheduler returns the
\* sibling's value under data although the NonNull root field a is null
C4_Witness ==
    /\ Returned /\ impl = "five"
    /\ sc.ta = NonNullT(IntT) /\ sc.ra = "null" /\ sc.rb = "lit"
    /\ Cardinality(NonNullErrorsAt(<<"a">>)) = 1
    /\ result.data = ObjV(<< <<"b", IntV(4)>> >>)

\* C5: the promise returned by execute never rejects: a missing root type, a
\* document with no operation or with several, a resolver exception and a
\* backend failure are all returned inside the errors list of the result
C5_NeverRejects == pc = "done" => ~result.rejected /\ (~result.hasData => result.errors # <<>>)

\* the promise rejects for a document without operation definition
C5_Witness ==
    /\ pc = "done" /\ sc.ops = 0 /\ result.rejected
    /\ result.errors[1].message = "missing operation"

ThrownMessage == "bar"

\* no field of the schema has a NonNull type, so that no null propagates
NoNonNull ==
    /\ sc.ta \in {IntT, ListT(IntT), ObjT, ListT(ObjT)}
    /\ sc.tx \in {IntT, SubT}

ThrowingCalls == {i \in CallIdx : calls[i].ret = "throw"}

ThrownErrorsAt(p) ==
    {n \in 1..Len(result.errors) :
        result.errors[n].path = p /\ result.errors[n].message = ThrownMessage}

\* the objects of data that hold the field of invocation i
ParentsOf(i) == ObjectsAt(result.data, PathPrev(calls[i].path), 1)

\* the sibling fields of the field of invocation i whose resolvers return a
\* plain value
PlainSiblings(i) ==
    IF Len(calls[i].path) = 1
    THEN (IF PathKey(calls[i].path) # "b" /\ sc.rb \in {"lit", "def"}
          THEN {"b"} ELSE {})
    ELSE (IF PathKey(calls[i].path) = "x" /\ sc.ry = "proj" THEN {"y"} ELSE {})

\* C6: when a field's resolver throws an ordinary error, exactly one error
\* with the thrown message and the field's output path is recorded, the field
\* is null in data, the sibling fields keep their values, and the failure
\* causes no batch call
C6_ThrowIsolated ==
    (Returned /\ result.hasData /\ NoNonNull) =>
        /\ \A i \in ThrowingCalls :
               /\ Cardinality(ThrownErrorsAt(calls[i].path)) = 1
               /\ Len(calls[i].path) = 1 => result.data.k = "obj"
               /\ \A o \in ParentsOf(i) :
                      /\ At(o, PathKey(calls[i].path)) = Null
                      /\ \A key \in PlainSiblings(i) : At(o, key).k = "int"
        /\ (ThrowingCalls # {} /\ ~SomeDeferred /\ NoAwait) => batches = 0

\* a state of the failure C6 is about: the five-queue scheduler leaves the
\* field whose resolver threw out of data instead of setting it to null
C6_Witness ==
    /\ Returned /\ impl = "five" /\ NoNonNull
    /\ sc.ta = IntT /\ sc.ra = "lit" /\ sc.rb = "throw"
    /\ Cardinality(ThrownErrorsAt(<<"b">>)) = 1
    /\ result.data = ObjV(<< <<"a", IntV(1)>> >>)

DuplicateErrors(errors) ==
    \E i, j \in 1..Len(errors) :
        i < j /\ Fingerprint(errors[i]) = Fingerprint(errors[j])

\* the errors whose fingerprint no earlier error of the sequence has
FirstAppearances(errors) ==
    SelectSeqIdx(errors,
                 {i \in 1..Len(errors) :
                     \A j \in 1..(i - 1) :
                         Fingerprint(errors[j]) # Fingerprint(errors[i])},
                 1)

\* C8: no two errors of the returned list have the same JSON fingerprint: an
\* error whose fingerprint appeared earlier in the accumulator is dropped and
\* the others keep their order of first appearance
C8_ErrorsDeduped ==
    (Returned /\ result.hasData) =>
        /\ ~DuplicateErrors(result.errors)
        /\ result.errors = FirstAppearances(resultErrors)

\* a state of the failure C8 is about: the resolver of x threw the same
\* GraphQLError for both elements of a literal list and both errors are
\* returned
C8_Witness ==
    /\ Returned /\ result.hasData /\ sc.rx = "throwGql" /\ sc.ra = "lit"
    /\ DuplicateErrors(resultErrors)
    /\ result.errors = resultErrors

\* the resolver of a returns a list, and the list field itself is not null
AIsList ==
    /\ isListType(getNullableType(sc.ta)) /\ sc.ra \in {"lit", "def"}
    /\ ~(sc.nulls /\ sc.ta = ListT(NonNullT(IntT)))

\* the output element for the resolved element j of the list a
CompletedElement(out, j) ==
    IF sc.nulls /\ j = 2 THEN out = Null
    ELSE IF getNamedType(sc.ta) = IntT THEN out = IntV(j)
    ELSE \/ out = Null /\ isNonNullType(sc.tx)
         \/ /\ out.k = "obj"
            /\ At(out, "y").k = "int" => At(out, "y") = IntV(20 + j)

\* C9: a list field whose resolved value has n elements is output as a list
\* of n elements, element i being the completed value of resolved element i;
\* a null element of a list of nullable element type stays null at its index
C9_ListPreserved ==
    (Returned /\ result.hasData /\ AIsList) =>
        LET out == At(result.data, "a")
        IN /\ out.k = "list"
           /\ Len(out.e) = ListLen
           /\ \A j \in 1..ListLen : CompletedElement(out.e[j], j)

\* a state of the failure C9 is about: Execution returns the list without its
\* null element
C9_Witness ==
    /\ Returned /\ result.hasData /\ impl = "exec"
    /\ sc.ta = ListT(IntT) /\ sc.ra = "lit" /\ sc.nulls
    /\ At(result.data, "a") = ListV(<<IntV(1)>>)
    /\ result.errors = <<>>

\* the keys of o follow the order of the field nodes
InOrder(o, fieldNodes) ==
    \A i, j \in 1..Len(o.e) :
        i < j => \E m, n \in 1..Len(fieldNodes) :
                     m < n /\ fieldNodes[m] = o.e[i][1] /\ fieldNodes[n] = o.e[j][1]

\* C10: in every object of the response the keys appear in the order of the
\* field nodes of the selection flattener, whichever fields were literal,
\* deferred or restaged and in whatever order their values were completed
C10_KeyOrder ==
    (Returned /\ result.hasData) =>
        /\ \A o \in ObjectsAt(result.data, <<>>, 1) : InOrder(o, RootSelection)
        /\ \A o \in ObjectsAt(result.data, <<"a">>, 1)
                    \cup ObjectsAt(result.data, <<"a", LIST_PLACEHOLDER>>, 1) :
               InOrder(o, SelectionOf("a"))

\* a state of the failure C10 is about: the five-queue scheduler returns the
\* literal field b before the deferred field a
C10_Witness ==
    /\ Returned /\ impl = "five" /\ sc.ta = IntT /\ sc.ra = "def" /\ sc.rb = "lit"
    /\ result.errors = <<>>
    /\ result.data = ObjV(<< <<"b", IntV(4)>>, <<"a", IntV(1)>> >>)


-----------------------------------------------------------------------------
(* A reference direct execution: the GraphQL execution algorithm (execute
   selection set, complete value, field errors caught at the nearest nullable
   field or list item) run on the same schema, document and resolvers *)

RefOut(v, errs, raised) == [v |-> v, errs |-> errs, raised |-> raised]

RECURSIVE RefComplete(_, _, _, _)
RECURSIVE RefItems(_, _, _, _, _, _)
RECURSIVE RefFields(_, _, _, _, _)

\* a field or a list item: an error raised below stops here unless the type
\* of the position is NonNull
RefSite(t, v, path, field) ==
    LET c == RefComplete(t, v, path, field)
    IN IF c.raised /\ ~isNonNullType(t) THEN RefOut(Null, c.errs, FALSE) ELSE c

RefComplete(t, v, path, field) ==
    IF isNonNullType(t)
    THEN LET c == RefComplete(t.of, v, path, field)
         IN IF ~c.raised /\ isNullValue(c.v)
            THEN RefOut(Null, Append(c.errs, <<NonNullMessage, path>>), TRUE)
            ELSE c
    ELSE IF isNullValue(v) THEN RefOut(Null, <<>>, FALSE)
    ELSE IF isListType(t)
    THEN IF v.k # "list"
         THEN RefOut(Null, << <<"Expected Iterable", path>> >>, TRUE)
         ELSE RefItems(t.of, v.e, 1, path, field, <<>>)
    ELSE IF isLeafType(t)
    THEN IF Serialize(v).ok THEN RefOut(Serialize(v).v, <<>>, FALSE)
         ELSE RefOut(Null, << <<Serialize(v).message, path>> >>, TRUE)
    ELSE RefFields(SelectionOf(field), 1, v, path, ObjV(<<>>))

RefItems(t, elems, i, path, field, acc) ==
    IF i > Len(elems) THEN RefOut(ListV(acc), <<>>, FALSE)
    ELSE LET c == RefSite(t, elems[i], Append(path, IdxKey(i - 1)), field)
             rest == RefItems(t, elems, i + 1, path, field, Append(acc, c.v))
         IN IF c.raised THEN c
            ELSE RefOut(rest.v, c.errs \o rest.errs, rest.raised)

RefFields(sel, i, source, path, acc) ==
    IF i > Len(sel) THEN RefOut(acc, <<>>, FALSE)
    ELSE LET f == sel[i]
             r == ResolveField(f, source)
             c == IF r.k = "throw"
                  THEN RefOut(Null, << <<r.m, IF r.gql THEN r.path
                                              ELSE Append(path, f)>> >>,
                              isNonNullType(FieldType(f)))
                  ELSE RefSite(FieldType(f), r.v, Append(path, f), f)
             rest == RefFields(sel, i + 1, source, path, Put(acc, f, c.v))
         IN IF c.raised THEN c
            ELSE RefOut(rest.v, c.errs \o rest.errs, rest.raised)

\* data and errors of the reference execution of the request
Reference == RefFields(RootSelection, 1, Undef, <<>>, ObjV(<<>>))

\* message and path of each error of a result, in order
ErrorList(errors) == [i \in 1..Len(errors) |-> <<errors[i].message, errors[i].path>>]

\* every resolver of the schema is synchronous and returns no deferred value
SyncResolvers ==
    /\ sc.ra \in {"lit", "null", "throw"}
    /\ sc.rb \in {"lit", "throw"}
    /\ sc.rx \in {"proj", "null", "throw", "throwGql"}
    /\ sc.ry = "proj" /\ sc.rp = "proj"

ValidRequest == sc.ops = 1 /\ sc.root

\* C11: with synchronous resolvers that return no deferred value, execute
\* returns the data and the errors of the reference direct execution of the
\* same document, and makes no batch call
C11_SyncEqualsReference ==
    (pc = "done" /\ SyncResolvers /\ ValidRequest) =>
        /\ Returned /\ result.hasData
        /\ result.data = Reference.v
        /\ ErrorList(result.errors) = Reference.errs
        /\ batches = 0

\* a state of the case C11 is about: an execution with synchronous resolvers
\* only has returned, without a batch, and its data differs from the
\* reference's: the NonNull field a is null and the reference's data is null
C11_Witness ==
    /\ Returned /\ SyncResolvers /\ ValidRequest /\ batches = 0
    /\ sc.ta = NonNullT(IntT) /\ sc.ra = "null" /\ sc.rb = "lit"
    /\ Reference.v = Null
    /\ result.data # Null


-----------------------------------------------------------------------------
(* Middleware composition: flattenMiddleware of src/backends/faunadb.ts and
   the hooks of createExecuteFn.  A function that middlewares wrap is
   represented by the middlewares a call enters, outermost first, and the
   base it reaches at the end *)

\* bounds of the inputs
MaxMiddlewares == 3
MaxHookMiddlewares == 2

MiddlewareNames == {"A", "B", "C"}

\* a middleware (next) => next' whose next' enters n and then calls next
Mw(n) == [k |-> "mw", n |-> n]
MwArray(e) == [k |-> "array", e |-> e]
MwUndefined == [k |-> "undefined"]
\* the closure reduceRight returns for the array elements e
MwStack(e) == [k |-> "stack", e |-> e]

Fn(enters, base) == [k |-> "fn", enters |-> enters, base |-> base]
\* TypeError: middleware is not a function
NotAFunction == [k |-> "TypeError"]

isFunction(m) == m.k \in {"mw", "stack"}

RECURSIVE applyMiddleware(_, _)
RECURSIVE reduceRight(_, _, _)
RECURSIVE reduceLeft(_, _, _)

\* elements e[i..] folded from the right onto next:
\* (stack, middleware) => (next) => middleware(stack(next)), from (next) => next
reduceRight(e, i, next) ==
    IF i > Len(e) THEN next
    ELSE applyMiddleware(e[i], reduceRight(e, i + 1, next))

\* the same fold taken from the left: the last element ends up outermost
reduceLeft(e, i, next) ==
    IF i < 1 THEN next
    ELSE applyMiddleware(e[i], reduceLeft(e, i - 1, next))

callStack_reduceLeft(e, next) == reduceLeft(e, Len(e), next)

\* the first element wraps the composition a second time
callStack_firstTwice(e, next) ==
    IF e = <<>> THEN next ELSE applyMiddleware(e[1], reduceRight(e, 1, next))

\* a call of the closure reduceRight returned
callStack(e, next) == reduceRight(e, 1, next)

\* middleware(next); the argument is evaluated first, so its exception wins
applyMiddleware(m, next) ==
    IF next.k = "TypeError" THEN next
    ELSE IF m.k = "mw" THEN Fn(<<m.n>> \o next.enters, next.base)
    ELSE IF m.k = "stack" THEN callStack(m.e, next)
    ELSE NotAFunction

\* the shortcut for one element taken for every non-empty array
flattenMiddleware_firstOnly(middleware) ==
    IF isFunction(middleware) THEN middleware
    ELSE IF middleware.k = "array" /\ Len(middleware.e) >= 1 THEN middleware.e[1]
    ELSE MwStack(IF middleware.k = "array" THEN middleware.e ELSE <<>>)

flattenMiddleware(middleware) ==
    IF isFunction(middleware) THEN middleware
    ELSE IF middleware.k = "array" /\ Len(middleware.e) = 1 THEN middleware.e[1]
    ELSE MwStack(IF middleware.k = "array" THEN middleware.e ELSE <<>>)

\* the injection points of createExecuteFn and the base each one wraps
InjectionPoints(version) ==
    {"fieldResolverMiddleware", "fieldResolverGetterMiddleware",
     "typeResolverGetterMiddleware", "serializerGetterMiddleware",
     "resolveDeferredValuesMiddleware"}
      \cup (IF version = "five" THEN {"typeResolverMiddleware"} ELSE {})

HookBase(point) ==
    CASE point = "fieldResolverMiddleware" -> "resolveField"
      [] point = "fieldResolverGetterMiddleware" -> "defaultFieldResolverGetter"
      [] point = "typeResolverMiddleware" -> "resolveType"
      [] point = "typeResolverGetterMiddleware" -> "defaultTypeResolverGetter"
      [] point = "serializerGetterMiddleware" -> "defaultSerializerGetter"
      [] OTHER -> "backend.resolveDeferredValues"

\* the two bundles composed the other way round
HookMiddleware_executorFirst(argsMiddleware, optionsMiddleware) ==
    flattenMiddleware(MwArray(<<flattenMiddleware(optionsMiddleware),
                                flattenMiddleware(argsMiddleware)>>))

\* flattenMiddleware([flattenMiddleware(args.X), rootX]) with
\* rootX = flattenMiddleware(options.X)
HookMiddleware(argsMiddleware, optionsMiddleware) ==
    flattenMiddleware(MwArray(<<flattenMiddleware(argsMiddleware),
                                flattenMiddleware(optionsMiddleware)>>))

\* sequences over S of the lengths 0..n
SeqsUpTo(S, n) == UNION {[1..m -> S] : m \in 0..n}

AllMw == {Mw(n) : n \in MiddlewareNames}

\* what the type Middleware<F> | Middleware<F>[] | undefined admits
TypedBundles(n) == {MwUndefined} \cup AllMw \cup {MwArray(e) : e \in SeqsUpTo(AllMw, n)}

\* arrays of two elements that nest arrays of two middlewares, which the type
\* does not admit but JavaScript does
NestedBundles ==
    {MwArray(e) : e \in [1..2 -> AllMw \cup {MwArray(p) : p \in [1..2 -> AllMw]}]}

FlattenCalls ==
    {[fn |-> "flattenMiddleware", middleware |-> m] :
        m \in TypedBundles(MaxMiddlewares) \cup NestedBundles}

HookCalls ==
    {[fn |-> "createExecuteFn", version |-> v, point |-> p, options |-> o, args |-> a] :
        v \in {"five", "exec"},
        p \in InjectionPoints("five"),
        o \in TypedBundles(MaxHookMiddlewares),
        a \in TypedBundles(MaxHookMiddlewares)}

\* no execution runs while a library function is under check
NoExecution ==
    /\ impl = "none" /\ sc = NoCall /\ pc = "idle"
    /\ step1_resolve = <<>> /\ step2_discriminate = <<>> /\ step3_validate = <<>>
    /\ step4_restage = <<>> /\ step5_revalidate = <<>>
    /\ deferredExprs = <<>> /\ containers = <<>>
    /\ deferredValues = Undef /\ completedFields = <<>>
    /\ unvalidatedResult = Undef /\ resultErrors = <<>>
    /\ result = NoResult /\ batches = 0 /\ thrown = "none"
    /\ calls = <<>> /\ restaged = <<>>

InitMiddleware ==
    /\ NoExecution
    /\ called \in FlattenCalls \cup {c \in HookCalls : c.point \in InjectionPoints(c.version)}
    /\ returned = NoCall

\* flattenMiddleware(middleware) and the call of its result on the base f
CallFlattenMiddleware ==
    /\ called.fn = "flattenMiddleware" /\ returned = NoCall
    /\ returned' = [fn |-> "flattenMiddleware",
                    value |-> flattenMiddleware(called.middleware),
                    applied |-> applyMiddleware(flattenMiddleware(called.middleware),
                                                Fn(<<>>, "f"))]
    /\ UNCHANGED <<called, execVars>>

\* createExecuteFn(backend, options)(args) up to the call of the hook of one
\* injection point on its base
CallHook ==
    /\ called.fn = "createExecuteFn" /\ returned = NoCall
    /\ returned' = [fn |-> "createExecuteFn",
                    applied |-> applyMiddleware(HookMiddleware(called.args, called.options),
                                                Fn(<<>>, HookBase(called.point)))]
    /\ UNCHANGED <<called, execVars>>

NextMiddleware == CallFlattenMiddleware \/ CallHook

SpecMiddleware == InitMiddleware /\ [][NextMiddleware]_vars


\* m(next) for a middleware function m: a call of the result enters m first
Wrap(m, next) == Fn(<<m.n>> \o next.enters, next.base)

\* m1(m2(...mn(f))) for the list ms of middleware functions
RECURSIVE Nested(_, _)
Nested(ms, f) == IF ms = <<>> THEN f ELSE Wrap(Head(ms), Nested(Tail(ms), f))

\* the middleware functions of a bundle the type admits, in order
BundleList(b) ==
    IF b.k = "array" THEN b.e ELSE IF b.k = "mw" THEN <<b>> ELSE <<>>

FlattenReturned == called.fn = "flattenMiddleware" /\ returned # NoCall

\* C12: flattenMiddleware composes a list of middlewares as a right fold:
\* its result applied to f is m1(m2(...mn(f))), and f itself for an empty or
\* missing list
C12_RightFold ==
    (FlattenReturned /\ called.middleware \in TypedBundles(MaxMiddlewares)) =>
        /\ returned.applied = Nested(BundleList(called.middleware), Fn(<<>>, "f"))
        /\ BundleList(called.middleware) = <<>> => returned.applied = Fn(<<>>, "f")

\* flattenMiddleware was called with a list of three different middlewares
C12_Witness ==
    /\ FlattenReturned
    /\ called.middleware = MwArray(<<Mw("A"), Mw("B"), Mw("C")>>)
    /\ returned.applied = Fn(<<"A", "B", "C">>, "f")

\* flattenMiddleware was called without a list and returned the identity
C12_WitnessMissing ==
    /\ FlattenReturned /\ called.middleware = MwUndefined
    /\ returned.applied = Fn(<<>>, "f")

HookReturned == called.fn = "createExecuteFn" /\ returned # NoCall

\* C13: at every injection point the middlewares of the execution args wrap
\* the middlewares given to createExecuteFn: a call enters the per-call
\* middlewares first, the per-executor middlewares second, then the base
C13_PerCallOutermost ==
    HookReturned =>
        returned.applied =
            Nested(BundleList(called.args) \o BundleList(called.options),
                   Fn(<<>>, HookBase(called.point)))

\* the hook of the field resolver was built from one per-call and one
\* per-executor middleware and was called
C13_Witness ==
    /\ HookReturned /\ called.point = "fieldResolverMiddleware"
    /\ called.args = Mw("A") /\ called.options = MwArray(<<Mw("B"), Mw("C")>>)
    /\ returned.applied = Fn(<<"A", "B", "C">>, "resolveField")

\* the three middlewares of a call flattenMiddleware([A, B, C])
IsTriple == FlattenReturned /\ called.middleware.k = "array"
            /\ Len(called.middleware.e) = 3

\* the two arrays that nest its elements
IsNestedRight == FlattenReturned /\ called.middleware.k = "array"
                 /\ Len(called.middleware.e) = 2
                 /\ called.middleware.e[1].k = "mw"
                 /\ called.middleware.e[2].k = "array"

\* C14: composition is associative: for middlewares A, B, C and every base f,
\* [A, [B, C]] and [[A, B], C] composed with flattenMiddleware behave alike
\* on f, whether the inner list is composed by flattenMiddleware first (what
\* the type asks for) or passed as it is (where both calls throw TypeError)
C14_Associative ==
    /\ IsTriple =>
          LET A == called.middleware.e[1]
              B == called.middleware.e[2]
              C == called.middleware.e[3]
              left == flattenMiddleware(
                          MwArray(<<A, flattenMiddleware(MwArray(<<B, C>>))>>))
              right == flattenMiddleware(
                          MwArray(<<flattenMiddleware(MwArray(<<A, B>>)), C>>))
          IN /\ applyMiddleware(left, Fn(<<>>, "f"))
                   = applyMiddleware(right, Fn(<<>>, "f"))
             /\ applyMiddleware(left, Fn(<<>>, "f")) = returned.applied
    /\ IsNestedRight =>
          LET A == called.middleware.e[1]
              B == called.middleware.e[2].e[1]
              C == called.middleware.e[2].e[2]
          IN returned.applied
                 = applyMiddleware(
                       flattenMiddleware(MwArray(<<MwArray(<<A, B>>), C>>)),
                       Fn(<<>>, "f"))

\* flattenMiddleware([A, B, C]) was called, and the nested compositions of
\* its elements enter A, B, C in this order
C14_Witness ==
    /\ IsTriple
    /\ called.middleware = MwArray(<<Mw("A"), Mw("B"), Mw("C")>>)
    /\ applyMiddleware(
           flattenMiddleware(
               MwArray(<<Mw("A"), flattenMiddleware(MwArray(<<Mw("B"), Mw("C")>>))>>)),
           Fn(<<>>, "f")) = Fn(<<"A", "B", "C">>, "f")


-----------------------------------------------------------------------------
(* selectionFields as a function of its arguments *)

\* bound of the inputs: the number of nodes of the selection set
MaxSelections == 2

ConcreteTypes == {"Dog", "Cat", "Robot"}
TypeConditions == {"Dog", "Cat", "Pet", "Node", "Animal"}

FieldPool ==
    {Leaf("a"), Leaf("b"),
     FieldNode("constructor", "", "[]", "[]", TRUE, <<Leaf("x")>>),
     FieldNode("a", "", "[1]", "[]", FALSE, <<>>),
     FieldNode("a", "", "[]", "[@d]", FALSE, <<>>),
     FieldNode("b", "a", "[]", "[]", FALSE, <<>>),
     FieldNode("o", "", "[]", "[]", TRUE, <<Leaf("x")>>),
     FieldNode("o", "", "[]", "[]", TRUE, <<Leaf("y")>>)}

FragmentBodies ==
    {<<Leaf("c")>>,
     <<FieldNode("o", "", "[]", "[]", TRUE, <<Leaf("z")>>),
       FieldNode("a", "", "[1]", "[]", FALSE, <<>>)>>}

NodePool ==
    FieldPool
      \cup {InlineFragmentNode(c, s) : c \in TypeConditions \cup {""},
                                       s \in FragmentBodies}
      \cup {FragmentSpreadNode(n) : n \in {"OnPet", "OnAnimal", "Missing"}}

SelectionCalls ==
    {[fn |-> "selectionFields", type |-> t, selections |-> s] :
        t \in ConcreteTypes, s \in SeqsUpTo(NodePool, MaxSelections)}


InitSelection ==
    /\ NoExecution
    /\ called \in SelectionCalls
    /\ returned = NoCall

\* what the caller sees: the read of `arguments` on the inherited function either
\* throws the TypeError or yields a value that never equals the node's arguments
EngineOutcomes(r) ==
    IF r = SelThrown("TypeError")
    THEN {r, SelThrown("duplicate field with different arguments")}
    ELSE {r}

CallSelectionFields ==
    /\ called.fn = "selectionFields" /\ returned = NoCall
    /\ returned' \in EngineOutcomes(selectionFields(called.selections, called.type))
    /\ UNCHANGED <<called, execVars>>

NextSelection == CallSelectionFields

SpecSelection == InitSelection /\ [][NextSelection]_vars


-----------------------------------------------------------------------------
(* C15-C17: what selectionFields returns *)

SelectionReturned == called.fn = "selectionFields" /\ returned # NoCall

\* the interfaces a type implements, directly or through other interfaces
RECURSIVE ImplementedBy(_, _)
ImplementedBy(type, depth) ==
    IF depth = 0 THEN {}
    ELSE UNION {{getInterfaces(type)[i]} \cup ImplementedBy(getInterfaces(type)[i], depth - 1) :
                    i \in 1..Len(getInterfaces(type))}

\* the fragment condition applies to the concrete type, as the claim has it
Applies(typeCondition, type) ==
    \/ typeCondition = ""
    \/ typeCondition = type
    \/ typeCondition \in ImplementedBy(type, 3)
    \/ \E i \in 1..Len(UnionTypes(typeCondition)) : UnionTypes(typeCondition)[i] = type

KeysOf(nodes) == {responseKey(nodes[i]) : i \in 1..Len(nodes)}

\* the response keys a node of the selection set contributes for a type
NodeKeys(node, type) ==
    IF node.kind = "Field" THEN {responseKey(node)}
    ELSE IF node.kind = "InlineFragment"
    THEN IF Applies(node.typeCondition, type) THEN KeysOf(node.selections) ELSE {}
    ELSE IF node.name \in DOMAIN fragmentMap
              /\ Applies(fragmentMap[node.name].typeCondition, type)
    THEN KeysOf(fragmentMap[node.name].selections)
    ELSE {}

ExpectedKeys(selections, type) ==
    UNION {NodeKeys(selections[i], type) : i \in 1..Len(selections)}

HasUntypedFragment(selections) ==
    \E i \in 1..Len(selections) :
        selections[i].kind = "InlineFragment" /\ selections[i].typeCondition = ""

\* C15: the list selectionFields returns for a concrete type has the fields of
\* every inline fragment without a type condition, and the fields of a fragment
\* with one exactly when the type is the named type, implements the named
\* interface (directly or transitively) or is a member of the named union
C15_FragmentInclusion ==
    (SelectionReturned /\ returned.ok)
        => KeysOf(returned.nodes) = ExpectedKeys(called.selections, called.type)

\* an inline fragment without a type condition was flattened and a field of it
\* is not in the returned list
C15_Witness ==
    /\ SelectionReturned /\ returned.ok
    /\ \E i \in 1..Len(called.selections) :
          /\ called.selections[i].kind = "InlineFragment"
          /\ called.selections[i].typeCondition = ""
          /\ ~(KeysOf(called.selections[i].selections) \subseteq KeysOf(returned.nodes))

\* the part of C15 about fragments that have a type condition
C15_TypedFragments ==
    (SelectionReturned /\ returned.ok /\ ~HasUntypedFragment(called.selections))
        => KeysOf(returned.nodes) = ExpectedKeys(called.selections, called.type)

\* a fragment on an interface the type implements only transitively is included
C15_WitnessTransitive ==
    /\ SelectionReturned /\ returned.ok /\ called.type = "Dog"
    /\ \E i \in 1..Len(called.selections) :
          /\ called.selections[i].kind = "InlineFragment"
          /\ called.selections[i].typeCondition = "Node"
          /\ KeysOf(called.selections[i].selections) \subseteq KeysOf(returned.nodes)
          /\ "c" \in KeysOf(called.selections[i].selections)


\* the field nodes a selection set selects for a type, in document order, before
\* duplicates are merged
Selected(node, type) ==
    IF node.kind = "Field" THEN <<node>>
    ELSE IF node.kind = "InlineFragment"
    THEN IF node.typeCondition # "" /\ Applies(node.typeCondition, type)
         THEN node.selections ELSE <<>>
    ELSE IF node.name \in DOMAIN fragmentMap
              /\ Applies(fragmentMap[node.name].typeCondition, type)
    THEN fragmentMap[node.name].selections
    ELSE <<>>

RECURSIVE SelectedFrom(_, _, _)
SelectedFrom(selections, i, type) ==
    IF i > Len(selections) THEN <<>>
    ELSE Selected(selections[i], type) \o SelectedFrom(selections, i + 1, type)

SelectedNodes == SelectedFrom(called.selections, 1, called.type)

\* the response keys of a list in the order of their first occurrence
RECURSIVE FirstKeys(_, _, _)
FirstKeys(nodes, i, seen) ==
    IF i > Len(nodes) THEN seen
    ELSE FirstKeys(nodes, i + 1,
             IF Includes(seen, responseKey(nodes[i])) THEN seen
             ELSE Append(seen, responseKey(nodes[i])))

KeySeq(nodes) == [i \in 1..Len(nodes) |-> responseKey(nodes[i])]

\* two selected nodes share a response key and differ in arguments or directives
Conflicting(nodes) ==
    \E i, j \in 1..Len(nodes) :
        /\ i < j /\ responseKey(nodes[i]) = responseKey(nodes[j])
        /\ (nodes[i].arguments # nodes[j].arguments
              \/ nodes[i].directives # nodes[j].directives)

ConflictErrors ==
    {SelThrown("duplicate field with different arguments"),
     SelThrown("duplicate field with different directives")}

MissingFragment(selections) ==
    \E i \in 1..Len(selections) :
        selections[i].kind = "FragmentSpread" /\ selections[i].name \notin DOMAIN fragmentMap

C16_WitnessConflict ==
    /\ SelectionReturned /\ returned = SelThrown("duplicate field with different directives")
    /\ Conflicting(SelectedNodes)

\* the nodes of SelectedNodes with the given response key
RECURSIVE NodesOfKey(_, _, _)
NodesOfKey(nodes, i, key) ==
    IF i > Len(nodes) THEN <<>>
    ELSE (IF responseKey(nodes[i]) = key THEN <<nodes[i]>> ELSE <<>>)
           \o NodesOfKey(nodes, i + 1, key)

RECURSIVE ConcatSelections(_, _)
ConcatSelections(nodes, i) ==
    IF i > Len(nodes) THEN <<>>
    ELSE nodes[i].selections \o ConcatSelections(nodes, i + 1)

\* the key is selected several times, each time with a selection set
SeveralTimes(key) ==
    /\ Len(NodesOfKey(SelectedNodes, 1, key)) >= 2
    /\ \A i \in 1..Len(NodesOfKey(SelectedNodes, 1, key)) :
          NodesOfKey(SelectedNodes, 1, key)[i].hasSelectionSet

MergedAt(key) ==
    /\ returned.ok
    /\ \E i \in 1..Len(returned.nodes) :
          /\ responseKey(returned.nodes[i]) = key
          /\ returned.nodes[i].selections
                = ConcatSelections(NodesOfKey(SelectedNodes, 1, key), 1)

\* C17: when a response key is selected several times with identical arguments
\* and directives, directly and through fragments, selectionFields returns one
\* node for it whose selection set is the concatenation of the selection sets of
\* all the duplicates
C17_MergedSelections ==
    (SelectionReturned /\ ~MissingFragment(called.selections)
       /\ ~Conflicting(SelectedNodes))
        => \A key \in KeysOf(SelectedNodes) : SeveralTimes(key) => MergedAt(key)

\* a key that Object.prototype defines was selected twice with identical
\* arguments and directives and the call threw
C17_Witness ==
    /\ SelectionReturned /\ ~returned.ok
    /\ ~MissingFragment(called.selections) /\ ~Conflicting(SelectedNodes)
    /\ SeveralTimes("constructor")

\* C17 for the keys that no object inherits
C17_OwnKeys ==
    (SelectionReturned /\ ~MissingFragment(called.selections)
       /\ ~Conflicting(SelectedNodes)
       /\ KeysOf(SelectedNodes) \cap InheritedKeys = {})
        => \A key \in KeysOf(SelectedNodes) : SeveralTimes(key) => MergedAt(key)

\* a field selected directly and through a fragment spread came back merged
C17_WitnessMerged ==
    /\ SelectionReturned /\ SeveralTimes("o") /\ MergedAt("o")
    /\ called.selections[2].kind = "FragmentSpread"
    /\ Len(returned.nodes[1].selections) = 2
    /\ returned.nodes[1].selections[1] # returned.nodes[1].selections[2]


-----------------------------------------------------------------------------
(* expandFromObject as a function of its arguments (src/expand.ts 74-229, the
   calls of src/expand.test.ts) *)

\* bounds of the inputs: the segments of the deferred path behind the batch
\* index, and the elements of an array of the result
MaxSegments == 3
MaxArray == 2

\* the deferred paths: keys and placeholders, at least one placeholder
DeferredSegments ==
    {p \in SeqsUpTo({LIST_PLACEHOLDER, "hello"}, MaxSegments) :
        Count(p, LIST_PLACEHOLDER) >= 1}

\* the result that has one element in every array and the leaf 1
RECURSIVE DefaultTree(_)
DefaultTree(rest) ==
    IF rest = <<>> THEN IntV(1)
    ELSE IF Head(rest) = LIST_PLACEHOLDER THEN ListV(<<DefaultTree(Tail(rest))>>)
    ELSE ObjV(<< <<Head(rest), DefaultTree(Tail(rest))>> >>)

\* the results of the shape of a deferred path: leaves 1, 2 or null, any value
\* above them possibly null, an object possibly without its key, arrays of
\* 0..MaxArray elements of which one is any result and the others the default
RECURSIVE Trees(_)
ArraysOf(rest, elems) ==
    {<<>>} \cup UNION {{[i \in 1..len |-> IF i = pos THEN t ELSE DefaultTree(rest)] :
                           t \in elems} : len \in 1..MaxArray, pos \in 1..MaxArray}

Trees(rest) ==
    IF rest = <<>> THEN {IntV(1), IntV(2), Null}
    ELSE IF Head(rest) = LIST_PLACEHOLDER
    THEN {Null} \cup {ListV(e) : e \in ArraysOf(Tail(rest), Trees(Tail(rest)))}
    ELSE {Null, ObjV(<<>>)}
           \cup {ObjV(<< <<Head(rest), t>> >>) : t \in Trees(Tail(rest))}

\* the calls: the deferred path itself as hint (the calls of the tests), or a
\* batch index in front of it and the hint path of a field "a" holding the value
ExpandCall(rest, tree, batch) ==
    [fn |-> "expandFromObject", rest |-> rest, tree |-> tree,
     prefix |-> IF batch THEN <<"a">> ELSE <<>>,
     obj |-> IF batch THEN ListV(<<tree>>) ELSE tree,
     deferredPath |-> IF batch THEN <<IdxKey(0)>> \o rest ELSE rest,
     path |-> IF batch THEN <<"a">> \o rest ELSE rest]

ExpandCalls ==
    UNION {{ExpandCall(rest, tree, batch) : tree \in Trees(rest), batch \in BOOLEAN} :
              rest \in DeferredSegments}

InitExpand ==
    /\ NoExecution
    /\ called \in ExpandCalls
    /\ returned = NoCall

CallExpandFromObject ==
    /\ called.fn = "expandFromObject" /\ returned = NoCall
    /\ returned' = expandFromObject(called.obj, called.deferredPath, called.path,
                                    NoExclude, <<>>)
    /\ UNCHANGED <<called, execVars>>

NextExpand == CallExpandFromObject

SpecExpand == InitExpand /\ [][NextExpand]_vars


-----------------------------------------------------------------------------
(* C19, C20: the pairs expandFromObject returns *)

ExpandReturned == called.fn = "expandFromObject" /\ returned # NoCall

\* every array the deferred path has a placeholder for is there, is not empty
\* and has no null element above a leaf
RECURSIVE ArraysPopulated(_, _)
ArraysPopulated(tree, rest) ==
    IF rest = <<>> THEN TRUE
    ELSE IF Head(rest) = LIST_PLACEHOLDER
    THEN /\ tree.k = "list" /\ tree.e # <<>>
         /\ \A i \in 1..Len(tree.e) :
               /\ Tail(rest) # <<>> => ~isNullValue(tree.e[i])
               /\ ArraysPopulated(tree.e[i], Tail(rest))
    ELSE IF Count(Tail(rest), LIST_PLACEHOLDER) = 0 THEN TRUE
    ELSE tree.k = "obj" /\ ArraysPopulated(At(tree, Head(rest)), Tail(rest))

\* no value above a leaf is null or undefined
RECURSIVE NoNullAbove(_, _)
NoNullAbove(tree, rest) ==
    IF rest = <<>> THEN TRUE
    ELSE IF isNullValue(tree) THEN FALSE
    ELSE IF Head(rest) = LIST_PLACEHOLDER
    THEN tree.k = "list" /\ \A i \in 1..Len(tree.e) : NoNullAbove(tree.e[i], Tail(rest))
    ELSE NoNullAbove(At(tree, Head(rest)), Tail(rest))

\* the leaves in row-major order: the hint path with the indices in the place of
\* the placeholders, and the value found there
RECURSIVE LeafPairs(_, _, _)
RECURSIVE LeafPairsFrom(_, _, _, _)
LeafPairsFrom(elems, i, rest, at) ==
    IF i > Len(elems) THEN <<>>
    ELSE LeafPairs(elems[i], rest, Append(at, IdxKey(i - 1)))
           \o LeafPairsFrom(elems, i + 1, rest, at)

LeafPairs(tree, rest, at) ==
    IF rest = <<>> THEN <<Pair(at, tree)>>
    ELSE IF Head(rest) = LIST_PLACEHOLDER
    THEN LeafPairsFrom(IF tree.k = "list" THEN tree.e ELSE <<>>, 1, Tail(rest), at)
    ELSE LeafPairs(At(tree, Head(rest)), Tail(rest), Append(at, Head(rest)))

C19_WitnessNull ==
    /\ ExpandReturned /\ ArraysPopulated(called.tree, called.rest)
    /\ called.rest = <<LIST_PLACEHOLDER, "hello", "hello">>
    /\ returned.ok /\ Len(returned.pairs) = 2
    /\ Len(returned.pairs[1].path) < Len(called.path)
    /\ returned.pairs[1].value = Null
    /\ Len(returned.pairs[2].path) = Len(called.path)


\* the output paths of the empty arrays the walk meets at a placeholder that is
\* not the last segment of the deferred path
RECURSIVE EmptyArrays(_, _, _)
EmptyArrays(tree, rest, at) ==
    IF rest = <<>> \/ isNullValue(tree) THEN {}
    ELSE IF Head(rest) = LIST_PLACEHOLDER
    THEN IF tree.k # "list" THEN {}
         ELSE IF tree.e = <<>> THEN (IF Tail(rest) # <<>> THEN {at} ELSE {})
         ELSE UNION {EmptyArrays(tree.e[i], Tail(rest), Append(at, IdxKey(i - 1))) :
                        i \in 1..Len(tree.e)}
    ELSE EmptyArrays(At(tree, Head(rest)), Tail(rest), Append(at, Head(rest)))

EmptyArraysMet == EmptyArrays(called.tree, called.rest, called.prefix)

\* the pairs at or below an output path
PairsUnder(q) ==
    {i \in 1..Len(returned.pairs) : IsPrefix(q, returned.pairs[i].path)}

\* C20: when expandFromObject meets an empty array at a placeholder behind which
\* the deferred path continues, it returns for it exactly one pair, the output
\* path of the array (without an index or later segments) with the empty array
C20_EmptyArray ==
    (ExpandReturned /\ EmptyArraysMet # {})
        => /\ returned.ok
           /\ \A q \in EmptyArraysMet :
                 /\ Cardinality(PairsUnder(q)) = 1
                 /\ \A i \in PairsUnder(q) : returned.pairs[i] = Pair(q, ListV(<<>>))

\* an empty array that is itself an element of an array of the value of a field
\* was met and the call threw
C20_Witness ==
    /\ ExpandReturned /\ ~returned.ok
    /\ called.prefix # <<>>
    /\ \E q \in EmptyArraysMet : Len(q) >= 2 /\ IsIdx(q[Len(q)])

\* C20 for the empty arrays that are the value of a field
C20_UnderKey ==
    (ExpandReturned /\ EmptyArraysMet # {}
       /\ \A q \in EmptyArraysMet : q # <<>> /\ ~IsIdx(q[Len(q)]))
        => /\ returned.ok
           /\ \A q \in EmptyArraysMet :
                 /\ Cardinality(PairsUnder(q)) = 1
                 /\ \A i \in PairsUnder(q) : returned.pairs[i] = Pair(q, ListV(<<>>))

\* the call of the test: the empty array at the first placeholder gives the one
\* pair of the array
C20_WitnessUnderKey ==
    /\ ExpandReturned /\ called.prefix = <<>>
    /\ called.rest = <<"hello", LIST_PLACEHOLDER, "hello">>
    /\ returned = ExpOk(<<Pair(<<"hello">>, ListV(<<>>))>>)


-----------------------------------------------------------------------------
(* Deferred values of abstract type under the five-queue scheduler: the
   requests of the tests unions > deferred and interfaces > deferred
   (src/backends/faunadbV10.ts 1431-1465, 1524-1557), the field a being a
   value or a list of values of the union FooHello or the interface Greeting *)

FooHelloT == Named("FooHello")
GreetingT == Named("Greeting")

TypesAbstract == {FooHelloT, ListT(FooHelloT), GreetingT, ListT(GreetingT)}

\* kinds gives the concrete type of every value, tn says whether the document
\* selects __typename next to the two inline fragments
AbstractScenarios ==
    {s \in [ta : TypesAbstract, tx : {IntT},
            ra : {"def"}, rb : {"lit", "def"},
            rx : {"proj"}, ry : {"proj"}, rp : {"proj", "awaitDef"},
            nulls : BOOLEAN, ops : {1}, root : {TRUE},
            tn : BOOLEAN, kinds : [1..ListLen -> {"Foo", "Hello"}]] :
        /\ s.nulls => isListType(s.ta)
        /\ ~isListType(s.ta) => \A i \in 2..ListLen : s.kinds[i] = "Foo"}

InitAbstract ==
    /\ impl = "five"
    /\ sc \in AbstractScenarios
    /\ pc = "setup"
    /\ step1_resolve = <<>>
    /\ step2_discriminate = <<>>
    /\ step3_validate = <<>>
    /\ step4_restage = <<>>
    /\ step5_revalidate = <<>>
    /\ deferredExprs = <<>>
    /\ containers = <<>>
    /\ deferredValues = Undef
    /\ completedFields = <<>>
    /\ unvalidatedResult = Undef
    /\ resultErrors = <<>>
    /\ result = NoResult
    /\ batches = 0
    /\ thrown = "none"
    /\ calls = <<>>
    /\ restaged = <<>>
    /\ called = NoCall
    /\ returned = NoCall

NextAbstract == Five

SpecAbstract == InitAbstract /\ [][NextAbstract]_vars


-----------------------------------------------------------------------------
(* C18: the response objects of deferred values of abstract type *)

\* the execution ended with a response, the backend having answered
AbstractReturned == pc = "done" /\ thrown = "none" /\ result.hasData

\* the children have the default resolver, as in the two tests
DefaultLeaves == sc.rp = "proj"

\* the keys the selection set of a selects for the concrete type kind
SelectedFor(kind) ==
    (IF sc.tn THEN {"__typename"} ELSE {})
      \cup (IF kind = "Foo" THEN {"foo"} ELSE {"hello"})

\* the positions of the values of a that are materialized (not null)
Materialized ==
    IF isListType(sc.ta)
    THEN {i \in 1..ListLen : ~(sc.nulls /\ i = 2)}
    ELSE {1}

\* the response object of the i-th value of a
ResponseObject(i) ==
    IF isListType(sc.ta)
    THEN At(At(result.data, "a"), IdxKey(i - 1))
    ELSE At(result.data, "a")

OwnKeys(o) == IF o.k = "obj" THEN {o.e[j][1] : j \in 1..Len(o.e)} ELSE {}

\* the keys that survive JSON.stringify: those whose value is not undefined
JsonKeys(o) == {key \in OwnKeys(o) : At(o, key) # Undef}

\* C18: for a deferred value of abstract type, also inside a list, the response
\* object of every materialized element has exactly the keys the selection set
\* selects for the element's concrete __typename, no key of a sibling concrete
\* type, and one batch call was made.
C18_ExactKeys ==
    (AbstractReturned /\ DefaultLeaves) =>
        /\ batches = 1
        /\ \A i \in Materialized : OwnKeys(ResponseObject(i)) = SelectedFor(sc.kinds[i])

\* the request of the test unions > deferred has ended: a list of a Foo and a
\* Hello, and the response object of the Hello has the key foo of Foo
C18_Witness ==
    /\ AbstractReturned /\ DefaultLeaves
    /\ sc.ta = ListT(FooHelloT) /\ sc.tn /\ ~sc.nulls
    /\ sc.kinds[1] = "Foo" /\ sc.kinds[2] = "Hello"
    /\ batches = 1
    /\ "foo" \in OwnKeys(ResponseObject(2))
    /\ At(ResponseObject(2), "foo") = Undef

\* outside a list the exclusion works: the response object of a single deferred
\* value of abstract type has exactly the selected keys, after one batch call
C18_SingleValue ==
    (AbstractReturned /\ DefaultLeaves /\ ~isListType(sc.ta)) =>
        /\ batches = 1
        /\ OwnKeys(ResponseObject(1)) = SelectedFor(sc.kinds[1])

C18_WitnessSingle ==
    /\ AbstractReturned /\ DefaultLeaves
    /\ sc.ta = GreetingT /\ sc.tn /\ sc.kinds[1] = "Hello"
    /\ OwnKeys(ResponseObject(1)) = {"__typename", "hello"}

\* inside a list every element has the values of its own fields, and a key of
\* a sibling type only with the value undefined, which JSON.stringify drops
C18_ListValues ==
    (AbstractReturned /\ DefaultLeaves /\ isListType(sc.ta)) =>
        /\ batches = 1
        /\ \A i \in Materialized :
              /\ JsonKeys(ResponseObject(i)) = SelectedFor(sc.kinds[i])
              /\ OwnKeys(ResponseObject(i)) \subseteq {"__typename", "foo", "hello"}
              /\ sc.tn => At(ResponseObject(i), "__typename") = StrV(sc.kinds[i])
              /\ sc.kinds[i] = "Foo" => At(ResponseObject(i), "foo") = IntV(40 + i)
              /\ sc.kinds[i] = "Hello" => At(ResponseObject(i), "hello") = IntV(50 + i)

\* inside a list every element has the keys selected for any concrete type
C18_SiblingKeys ==
    (AbstractReturned /\ DefaultLeaves /\ isListType(sc.ta)) =>
        \A i \in Materialized :
            OwnKeys(ResponseObject(i)) = SelectedFor("Foo") \cup SelectedFor("Hello")


-----------------------------------------------------------------------------
(* C21: null or undefined met during the descent of expandFromObject *)

\* no array of the result is empty
RECURSIVE NoEmptyArray(_, _)
NoEmptyArray(tree, rest) ==
    IF rest = <<>> \/ isNullValue(tree) THEN TRUE
    ELSE IF Head(rest) = LIST_PLACEHOLDER
    THEN tree.k = "list" /\ tree.e # <<>>
           /\ \A i \in 1..Len(tree.e) : NoEmptyArray(tree.e[i], Tail(rest))
    ELSE NoEmptyArray(At(tree, Head(rest)), Tail(rest))

\* the pairs of a descent that stops at a null or undefined value with the one
\* pair (output path reached, null) and expands everything else
RECURSIVE CollapsePairs(_, _, _)
RECURSIVE CollapsePairsFrom(_, _, _, _)
CollapsePairsFrom(elems, i, rest, at) ==
    IF i > Len(elems) THEN <<>>
    ELSE CollapsePairs(elems[i], rest, Append(at, IdxKey(i - 1)))
           \o CollapsePairsFrom(elems, i + 1, rest, at)

CollapsePairs(tree, rest, at) ==
    IF rest = <<>> THEN <<Pair(at, tree)>>
    ELSE IF isNullValue(tree) THEN <<Pair(at, Null)>>
    ELSE IF Head(rest) = LIST_PLACEHOLDER
    THEN CollapsePairsFrom(IF tree.k = "list" THEN tree.e ELSE <<>>, 1, Tail(rest), at)
    ELSE CollapsePairs(At(tree, Head(rest)), Tail(rest), Append(at, Head(rest)))

\* the same, the value of the pair being the null or undefined that was met
RECURSIVE StopPairs(_, _, _)
RECURSIVE StopPairsFrom(_, _, _, _)
StopPairsFrom(elems, i, rest, at) ==
    IF i > Len(elems) THEN <<>>
    ELSE StopPairs(elems[i], rest, Append(at, IdxKey(i - 1)))
           \o StopPairsFrom(elems, i + 1, rest, at)

StopPairs(tree, rest, at) ==
    IF rest = <<>> \/ isNullValue(tree) THEN <<Pair(at, tree)>>
    ELSE IF Head(rest) = LIST_PLACEHOLDER
    THEN StopPairsFrom(IF tree.k = "list" THEN tree.e ELSE <<>>, 1, Tail(rest), at)
    ELSE StopPairs(At(tree, Head(rest)), Tail(rest), Append(at, Head(rest)))

\* null or undefined is met before the last segment of the deferred path
NullMet == ~NoNullAbove(called.tree, called.rest)

\* C21: when expandFromObject meets null or undefined at an intermediate step of
\* the descent, before or inside a list element, it returns for that branch
\* exactly one pair, the output path reached so far with the value null, does
\* not descend further, and expands the other list elements normally
C21_NullCollapses ==
    (ExpandReturned /\ NullMet /\ NoEmptyArray(called.tree, called.rest))
        => returned = ExpOk(CollapsePairs(called.tree, called.rest, called.prefix))

\* C21 (amended): the value of the pair is the null or undefined that was met
C21_NullStops ==
    (ExpandReturned /\ NullMet /\ NoEmptyArray(called.tree, called.rest))
        => returned = ExpOk(StopPairs(called.tree, called.rest, called.prefix))


\* an element without the key the deferred path continues through: its pair
\* has the path of the key and the value undefined, the other element its leaf
C21_Witness ==
    /\ ExpandReturned /\ NullMet /\ NoEmptyArray(called.tree, called.rest)
    /\ called.rest = <<LIST_PLACEHOLDER, "hello", "hello">> /\ called.prefix = <<"a">>
    /\ called.tree.k = "list" /\ Len(called.tree.e) = 2
    /\ called.tree.e[1] = ObjV(<<>>)
    /\ returned.ok /\ Len(returned.pairs) = 2
    /\ returned.pairs[1] = Pair(<<"a", "0", "hello">>, Undef)
    /\ returned.pairs[2] = Pair(<<"a", "1", "hello", "hello">>, IntV(1))

\* as in the third call of the test 'null in path': the element whose key
\* holds null gives the pair (0.hello, null), the other element its leaf
C21_WitnessNull ==
    /\ ExpandReturned /\ NullMet
    /\ called.rest = <<LIST_PLACEHOLDER, "hello", "hello">>
    /\ called.prefix = <<>>
    /\ returned.ok /\ Len(returned.pairs) = 2
    /\ returned.pairs[1] = Pair(<<"0", "hello">>, Null)
    /\ returned.pairs[2].path = <<"1", "hello", "hello">>


-----------------------------------------------------------------------------
(* expandFromObject called with any pair of a deferred path and a hint path
   (src/expand.ts 74-92) *)

HintSegments == SeqsUpTo({LIST_PLACEHOLDER, "hello", "a"}, MaxSegments)

HintObjects ==
    {Null, IntV(1), ListV(<<IntV(1)>>),
     ObjV(<< <<"hello", ListV(<<IntV(1), IntV(2)>>)>> >>)}

\* the errors recorded before the call: none, or one at the path a
HintErrors == {<<>>, <<GqlError("bar", <<"a">>, "a", "none")>>}

HintCalls ==
    {[fn |-> "expandFromObject", obj |-> o, deferredPath |-> d, path |-> p,
      resultErrors |-> e] :
        o \in HintObjects,
        d \in SeqsUpTo({LIST_PLACEHOLDER, "hello"}, MaxSegments),
        p \in HintSegments, e \in HintErrors}

InitHint ==
    /\ NoExecution
    /\ called \in HintCalls
    /\ returned = NoCall

CallExpandWithHint ==
    /\ called.fn = "expandFromObject" /\ returned = NoCall
    /\ returned' = expandFromObject(called.obj, called.deferredPath, called.path,
                                    NoExclude, called.resultErrors)
    /\ UNCHANGED <<called, execVars>>

NextHint == CallExpandWithHint

SpecHint == InitHint /\ [][NextHint]_vars

-----------------------------------------------------------------------------
(* C22: the placeholder counts of the two paths *)

CountsDiffer ==
    Count(called.deferredPath, LIST_PLACEHOLDER) # Count(called.path, LIST_PLACEHOLDER)

\* the call threw an Error that is no GraphQLError
ProgrammerError == ~returned.ok /\ ~returned.gql

C22_EarlyReturns ==
    (ExpandReturned /\ CountsDiffer) =>
        /\ didParentError(called.path, called.resultErrors) => returned = ExpOk(<<>>)
        /\ (called.deferredPath = <<>>
              /\ ~didParentError(called.path, called.resultErrors))
             => returned = ExpOk(<<Pair(called.path, called.obj)>>)

C22_WitnessEarly ==
    /\ ExpandReturned /\ CountsDiffer
    /\ called.deferredPath = <<>> /\ called.path = <<"hello", LIST_PLACEHOLDER>>
    /\ returned = ExpOk(<<Pair(called.path, called.obj)>>)


-----------------------------------------------------------------------------
(* C23: the placeholder counts of the paths the scheduler files *)

Placeholders(p) == Count(p, LIST_PLACEHOLDER)

\* the hint path of the call of expandFromObject for an entry of step4_restage
RestageHint(t) == Append(t.prevPath, fieldNodeKey(t.fieldNode))

\* C23: in every reachable state of the five-queue scheduler each entry of
\* step4_restage and of step5_revalidate has a deferred path and an expected
\* output path (prevPath plus response key, resp. fieldPath) with the same
\* number of list placeholders, and no call of expandFromObject the scheduler
\* made failed the comparison of the counts
C23_SameCounts ==
    impl = "five" =>
        /\ \A i \in 1..Len(step4_restage) :
              Placeholders(step4_restage[i].deferredPath)
                = Placeholders(RestageHint(step4_restage[i]))
        /\ \A i \in 1..Len(step5_revalidate) :
              Placeholders(step5_revalidate[i].deferredPath)
                = Placeholders(step5_revalidate[i].fieldPath)
        /\ \A i \in 1..Len(resultErrors) :
              resultErrors[i].message
                # "expandFromObject: arraysFromPath !== arraysFromDeferred"

\* a restage entry and a revalidate entry below a list are queued, each with
\* one placeholder in both of its paths
C23_Witness ==
    /\ impl = "five"
    /\ \E i \in 1..Len(step4_restage) :
           /\ Placeholders(step4_restage[i].deferredPath) = 1
           /\ Placeholders(RestageHint(step4_restage[i])) = 1
    /\ \E i \in 1..Len(step5_revalidate) :
           /\ Placeholders(step5_revalidate[i].deferredPath) = 1
           /\ Placeholders(step5_revalidate[i].fieldPath) = 1

\* the same for the requests with a field of abstract type
C23_SameCountsAbstract == C23_SameCounts /\ impl = "five"


-----------------------------------------------------------------------------
(* Executions of the five-queue scheduler against a deferred rootValue *)

\* the root fields default, awaiting or literal, the children of a default or
\* awaiting
RootScenarios ==
    {s \in [ta : {IntT, ObjT, ListT(ObjT)}, tx : {IntT},
            ra : {"proj", "awaitDef", "awaitLit", "lit"},
            rb : {"proj", "awaitDef", "awaitLit", "lit"},
            rx : {"proj", "awaitDef"}, ry : {"proj"}, rp : {"proj"},
            nulls : {FALSE}, ops : {1}, root : {TRUE},
            rootValue : {DLit(ObjV(<< <<"a", IntV(1)>>, <<"b", IntV(4)>> >>)),
                         DLit(ObjV(<< <<"a", ObjV(<< <<"x", IntV(10)>>, <<"y", IntV(20)>> >>)>>,
                                      <<"b", IntV(4)>> >>)),
                         DLit(ObjV(<< <<"a", ListV(<<ObjV(<< <<"x", IntV(10)>>, <<"y", IntV(20)>> >>)>>)>>,
                                      <<"b", IntV(4)>> >>))}] :
        /\ s.ta = IntT <=> At(s.rootValue.v, "a").k = "int"
        /\ s.ta = ObjT <=> At(s.rootValue.v, "a").k = "obj"
        /\ s.ta = IntT => s.rx = "proj"}

InitRoot ==
    /\ impl = "five"
    /\ sc \in RootScenarios
    /\ pc = "setup"
    /\ step1_resolve = <<>>
    /\ step2_discriminate = <<>>
    /\ step3_validate = <<>>
    /\ step4_restage = <<>>
    /\ step5_revalidate = <<>>
    /\ deferredExprs = <<>>
    /\ containers = <<>>
    /\ deferredValues = Undef
    /\ completedFields = <<>>
    /\ unvalidatedResult = Undef
    /\ resultErrors = <<>>
    /\ result = NoResult
    /\ batches = 0
    /\ thrown = "none"
    /\ calls = <<>>
    /\ restaged = <<>>
    /\ called = NoCall
    /\ returned = NoCall

NextRoot == Five

SpecRoot == InitRoot /\ [][NextRoot]_vars


-----------------------------------------------------------------------------
(* C24: a resolver that awaits its wrapped source without a deferral *)

\* the root fields whose resolver awaited the wrapped rootValue so far
AwaitedRoot ==
    {calls[i].path : i \in {j \in 1..Len(calls) :
                               Len(calls[j].path) = 1 /\ calls[j].ret = "next"}}

ErrorsAt(path, message) ==
    {i \in 1..Len(resultErrors) :
        resultErrors[i].path = path /\ resultErrors[i].message = message}

\* C24: when a resolver awaits a wrapped source and its field task carries no
\* deferral (a root field resolved against a deferred rootValue), the
\* five-queue scheduler records one error 'expected deferral value' at the
\* field's path, does not enqueue the field for restage, and goes on with the
\* remaining fields
C24_ExpectedDeferral ==
    /\ \A p \in AwaitedRoot :
          /\ Cardinality(ErrorsAt(p, "expected deferral value")) = 1
          /\ ~Includes(restaged, p)
          /\ \A i \in 1..Len(step4_restage) : RestageHint(step4_restage[i]) # p
    /\ pc = "done" =>
          /\ \A f \in {"a", "b"} : \E i \in 1..Len(calls) : calls[i].path = <<f>>
          /\ (sc.ra \in {"awaitDef", "awaitLit"} /\ sc.rb \in {"lit", "proj"}
                /\ thrown = "none")
               => result.hasData /\ At(result.data, "b") = IntV(4)

\* the resolver of a awaited the deferred rootValue and the execution ended
\* with the one error at a and the value of b
C24_Witness ==
    /\ pc = "done" /\ thrown = "none"
    /\ sc.ra = "awaitDef" /\ sc.rb = "proj"
    /\ AwaitedRoot = {<<"a">>}
    /\ Cardinality(ErrorsAt(<<"a">>, "expected deferral value")) = 1
    /\ Len(result.errors) = 1 /\ result.errors[1].path = <<"a">>
    /\ At(result.data, "b") = IntV(4)


-----------------------------------------------------------------------------
(* Executions in which the resolved value of an Int field is the string "foo"
   (the tests primitives > literal > invalid and primitives > deferred >
   invalid, src/backends/faunadbV10.ts 968-1033), under both schedulers *)

SerializeScenarios ==
    {s \in [ta : {IntT, ObjT, ListT(ObjT)}, tx : {IntT},
            ra : {"lit", "def"}, rb : {"lit", "def"},
            rx : {"proj", "awaitDef", "awaitLit"}, ry : {"proj"}, rp : {"proj"},
            nulls : {FALSE}, ops : {1}, root : {TRUE},
            invalid : (SUBSET {"a", "b", "x", "y"}) \ {{}},
            bad : {[n \in 0..29 |-> StrV("foo")]}] :
        /\ "a" \in s.invalid => s.ta = IntT
        /\ s.ta = IntT => s.rx = "proj" /\ s.invalid \subseteq {"a", "b"}
        /\ s.ra = "lit" => s.rx = "proj"}

InitSerialize ==
    /\ impl \in {"five", "exec"}
    /\ sc \in SerializeScenarios
    /\ pc = "setup"
    /\ step1_resolve = <<>>
    /\ step2_discriminate = <<>>
    /\ step3_validate = <<>>
    /\ step4_restage = <<>>
    /\ step5_revalidate = <<>>
    /\ deferredExprs = <<>>
    /\ containers = <<>>
    /\ deferredValues = Undef
    /\ completedFields = <<>>
    /\ unvalidatedResult = Undef
    /\ resultErrors = <<>>
    /\ result = NoResult
    /\ batches = 0
    /\ thrown = "none"
    /\ calls = <<>>
    /\ restaged = <<>>
    /\ called = NoCall
    /\ returned = NoCall

NextSerialize == Five \/ Exec

SpecSerialize == InitSerialize /\ [][NextSerialize]_vars


-----------------------------------------------------------------------------
(* C25: a serializer that fails *)

SerializerMessage == "Int cannot represent non-integer value"

\* the paths of the Int leaves of the response with the field of each
LeafPaths ==
    {<<"b">>} \cup
    (CASE sc.ta = IntT -> {<<"a">>}
       [] sc.ta = ObjT -> {<<"a", "x">>, <<"a", "y">>}
       [] OTHER -> {<<"a", IdxKey(j - 1), f>> : j \in 1..ListLen, f \in {"x", "y"}})

LeafField(p) == p[Len(p)]

\* the number of the object literal that holds the leaf
LeafObject(p) == IF Len(p) = 3 THEN IdxOf(p[2]) + 1 ELSE 1

\* the value of the leaf when its serializer does not fail
ValidLeaf(p) ==
    CASE LeafField(p) = "b" -> IntV(4)
      [] LeafField(p) = "a" -> IntV(1)
      [] LeafField(p) = "y" -> IntV(20 + LeafObject(p))
      [] OTHER -> IntV(10 + LeafObject(p))

FailedLeaves == {p \in LeafPaths : LeafField(p) \in InvalidFields}

ResultErrorsAt(p) ==
    {i \in 1..Len(result.errors) : result.errors[i].path = p}

SerializeCompleted == Returned /\ thrown = "none" /\ InvalidFields # {}

\* C25 (the errors): every leaf whose serializer fails has exactly one error,
\* with the serializer's message, at its path, and no other leaf has an error
C25_OneErrorPerLeaf ==
    SerializeCompleted =>
        /\ \A p \in FailedLeaves :
              /\ Cardinality(ResultErrorsAt(p)) = 1
              /\ \A i \in ResultErrorsAt(p) :
                    result.errors[i].message = SerializerMessage
        /\ Len(result.errors) = Cardinality(FailedLeaves)

\* C25 (the other fields): the leaves whose serializer does not fail keep
\* their values
C25_OthersUnchanged ==
    SerializeCompleted =>
        \A p \in LeafPaths \ FailedLeaves :
            result.hasData => selectPlain(result.data, p, 0) = ValidLeaf(p)

\* C25: when the serializer of a leaf value fails, exactly one error with the
\* serializer's message is recorded at the leaf's path, that field is null in
\* data, and the values of all other fields are unchanged
C25_NullLeaf ==
    SerializeCompleted =>
        /\ C25_OneErrorPerLeaf
        /\ result.hasData
        /\ result.data.k = "obj"
        /\ \A p \in FailedLeaves : selectPlain(result.data, p, 0) = Null
        /\ \A p \in LeafPaths \ FailedLeaves :
              selectPlain(result.data, p, 0) = ValidLeaf(p)

\* C25 for class Execution and fields whose resolvers do not await their source
C25_NullLeafExecution == (impl = "exec" /\ sc.rx = "proj") => C25_NullLeaf

\* C25 for the five-queue scheduler, but for the failing leaf's key, which is
\* missing from data instead of null
C25_MissingLeaf ==
    (SerializeCompleted /\ impl = "five") =>
        /\ C25_OneErrorPerLeaf
        /\ \A p \in FailedLeaves : selectPlain(result.data, p, 0) = Undef
        /\ \A p \in LeafPaths \ FailedLeaves :
              result.hasData => selectPlain(result.data, p, 0) = ValidLeaf(p)

\* the test primitives > literal > invalid with a valid sibling: the error is
\* recorded and the key of the failing leaf is missing from data
C25_Witness ==
    /\ SerializeCompleted /\ impl = "five"
    /\ sc.ta = IntT /\ sc.ra = "lit" /\ sc.rb = "lit" /\ sc.invalid = {"a"}
    /\ Len(result.errors) = 1
    /\ result.errors[1].message = SerializerMessage
    /\ result.errors[1].path = <<"a">>
    /\ result.data = ObjV(<< <<"b", IntV(4)>> >>)


-----------------------------------------------------------------------------
(* C26: termination of the five-queue scheduler.  The scheduler is one
   sequential async function: each of its steps runs as soon as the awaited
   resolver or batch call has returned, so a step that stays enabled is
   eventually taken (weak fairness of its steps). *)

\* the scenarios with one operation and children that are projected, awaited
\* or throw
LiveScenarios ==
    {s \in Scenarios :
        /\ s.ops = 1 /\ s.root
        /\ s.ra \in {"lit", "def", "throw"}
        /\ s.rx \in {"proj", "awaitDef", "throw"}
        /\ s.ry = "proj" /\ s.rp = "proj"}

InitLive == Init /\ impl = "five" /\ sc \in LiveScenarios

NextLive == Five

SpecLive == InitLive /\ [][NextLive]_vars /\ WF_vars(NextLive)

QueuesEmpty ==
    /\ step1_resolve = <<>>
    /\ step2_discriminate = <<>>
    /\ step3_validate = <<>>
    /\ step4_restage = <<>>
    /\ step5_revalidate = <<>>

\* C26: every execution whose batch calls return eventually reaches a state
\* where the five queues are empty and the result has been returned; one whose
\* batch call throws returns its rejection
C26_Terminates == <>(pc = "done" /\ (thrown = "none" => QueuesEmpty))

\* a batch call that throws leaves the entries it was about to serve
C26_EmptyWhateverThrown == <>(pc = "done" /\ QueuesEmpty)

\* once returned, nothing moves any more
C26_Final == [][pc = "done" => UNCHANGED vars]_vars

\* an execution of the five-queue scheduler that went through two batches and
\* a restage before it returned with empty queues
C26_Witness ==
    /\ pc = "done" /\ impl = "five" /\ QueuesEmpty
    /\ batches = 2 /\ restaged # <<>> /\ thrown = "none" /\ result.hasData


-----------------------------------------------------------------------------
(* C27: the assertions at the end of an iteration of the outer loop *)

AssertionMessages == {"Expected no restage", "Expected no backfill"}

\* C27: at the end of every iteration of the outer loop the restage and
\* revalidate queues are empty; an entry left in one of them by the drain
\* loops comes with a non-empty batch; and the two assertions never fail
C27_NoLeftover ==
    impl = "five" =>
        /\ pc = "endIteration" => step4_restage = <<>> /\ step5_revalidate = <<>>
        /\ (step4_restage # <<>> \/ step5_revalidate # <<>>) => deferredExprs # <<>>
        /\ \A i \in 1..Len(result.errors) :
              result.errors[i].message \notin AssertionMessages

\* an iteration ends after a batch that served both a restage and a
\* revalidate entry
C27_Witness ==
    /\ impl = "five" /\ pc = "endIteration" /\ batches = 1
    /\ restaged # <<>>
    /\ \E i \in 1..Len(completedFields) : completedFields[i].serialize = "identity"
    /\ step4_restage = <<>> /\ step5_revalidate = <<>>


-----------------------------------------------------------------------------
(* C28: a field is restaged at most once *)

\* the output path q is the path p with its placeholders filled in
InstanceOf(q, p) ==
    /\ Len(q) = Len(p)
    /\ \A i \in 1..Len(p) : equivalentPathKey(q[i], p[i])

\* the resolve tasks the restage loop has created: step1_resolve is empty when
\* the batch is sent, and only the restage loop appends to it before the next
\* iteration starts
RestageCreated ==
    IF pc \in {"restage", "revalidate", "endIteration"}
    THEN {i \in 1..Len(step1_resolve) : TRUE}
    ELSE {}

\* C28: a field is restaged at most once: no path enters the restage queue
\* twice, a resolve task the restage loop creates has a materialized source and
\* no deferral, the resolver called again for a restaged field does not ask
\* for the next stage again, and a field is restaged only when its resolver
\* awaited a wrapped source
C28_RestagedOnce ==
    impl = "five" =>
        /\ \A i, j \in 1..Len(restaged) : restaged[i] = restaged[j] => i = j
        /\ \A i \in RestageCreated :
              /\ step1_resolve[i].deferral = NoDeferral
              /\ step1_resolve[i].sourceValue.k \notin {"wrapped", "dlit", "dvar", "dproj", "dcomp", "dcompt", "dabs"}
        /\ \A i, j \in 1..Len(calls) :
              (i < j /\ calls[i].ret = "next"
                 /\ InstanceOf(calls[j].path, calls[i].path))
                => /\ calls[j].ret # "next"
                   /\ calls[j].source.k # "wrapped"
        /\ \A i \in 1..Len(restaged) :
              \E j \in 1..Len(calls) :
                  /\ calls[j].path = restaged[i]
                  /\ calls[j].ret = "next"
                  /\ calls[j].source.k = "wrapped"
        /\ \A i \in 1..Len(step4_restage) :
              Includes(restaged, RestageHint(step4_restage[i]))

\* the resolver of a restaged field of two list elements has been called again
\* for each element, with the materialized element as its source
C28_Witness ==
    /\ impl = "five" /\ pc = "done" /\ thrown = "none"
    /\ restaged = << <<"a", "[]", "x">> >>
    /\ \E i, j, k \in 1..Len(calls) :
          /\ i < j /\ j < k
          /\ calls[i].path = <<"a", "[]", "x">> /\ calls[i].ret = "next"
          /\ calls[j].path = <<"a", "0", "x">> /\ calls[j].ret = "deferred"
          /\ calls[k].path = <<"a", "1", "x">> /\ calls[k].ret = "deferred"
          /\ calls[j].stage = 1 /\ calls[k].stage = 1


-----------------------------------------------------------------------------
(* C29: the slots of the batch *)

\* the restage and revalidate entries with the output path of each
BatchEntries ==
    {[deferredPath |-> step4_restage[i].deferredPath,
      path |-> RestageHint(step4_restage[i])] : i \in 1..Len(step4_restage)}
    \cup
    {[deferredPath |-> step5_revalidate[i].deferredPath,
      path |-> step5_revalidate[i].fieldPath] : i \in 1..Len(step5_revalidate)}

\* the slots a call of the setter with a new expression changes
SlotsWritten(setter) ==
    {k \in 1..Len(deferredExprs) :
        ApplySet(St, setter, DLit(StrV("new"))).d[k] # deferredExprs[k]}

\* the slot at the root of the chain of setters
RECURSIVE RootSlot(_)
RootSlot(setter) ==
    IF setter.k = "slot" THEN setter.i ELSE RootSlot(containers[setter.c].up)

\* every entry of the restage and revalidate queues starts its deferred path
\* with the index of a slot of the batch, and that slot holds a deferred
\* expression with the output path of an ancestor of the entry (or its own)
SlotIndexed ==
    \A e \in BatchEntries :
        /\ e.deferredPath # <<>> /\ IsIdx(e.deferredPath[1])
        /\ IdxOf(e.deferredPath[1]) < Len(deferredExprs)
        /\ isDeferredValue(deferredExprs[IdxOf(e.deferredPath[1]) + 1].expr)
        /\ Len(deferredExprs[IdxOf(e.deferredPath[1]) + 1].path) <= Len(e.path)
        /\ Slice(e.path, 0, Len(deferredExprs[IdxOf(e.deferredPath[1]) + 1].path))
             = deferredExprs[IdxOf(e.deferredPath[1]) + 1].path
        /\ Len(e.path) - Len(deferredExprs[IdxOf(e.deferredPath[1]) + 1].path)
             = Len(e.deferredPath) - 1

\* the setter created for slot k writes slot k and nothing else, and the
\* setter of a container writes the slot at the root of its chain only
SettersWriteOwnSlot ==
    /\ \A k \in 0..(Len(deferredExprs) - 1) : SlotsWritten(SlotSetter(k)) = {k + 1}
    /\ \A c \in 1..Len(containers) :
          SlotsWritten(ChildSetter(c, "new")) = {RootSlot(containers[c].up) + 1}

\* within a stage a slot is neither removed nor moved: a step either starts
\* the next stage with an empty batch or keeps every slot's output path at its index
SlotsKept ==
    \/ (pc = "endIteration" /\ deferredExprs' = <<>>)
    \/ /\ Len(deferredExprs') >= Len(deferredExprs)
       /\ \A k \in 1..Len(deferredExprs) :
             deferredExprs'[k].path = deferredExprs[k].path

\* C29: each restage and revalidate entry names by its first deferred-path
\* segment a slot of the current batch that holds the expression and output
\* path of its root deferred ancestor; slots are never removed or reordered
\* within a stage; the setter of slot k writes slot k only
C29_Slots ==
    [][impl = "five" => (SlotIndexed' /\ SettersWriteOwnSlot' /\ SlotsKept)]_vars

\* the same for the states alone
C29_SlotsState == impl = "five" => (SlotIndexed /\ SettersWriteOwnSlot)

\* two slots, a restage entry filed against the first and a revalidate entry
\* against the second
C29_Witness ==
    /\ impl = "five" /\ pc = "batch" /\ Len(deferredExprs) = 2
    /\ \E i \in 1..Len(step4_restage) : step4_restage[i].deferredPath[1] = "0"
    /\ \E i \in 1..Len(step5_revalidate) : step5_revalidate[i].deferredPath[1] = "1"
    /\ deferredExprs[1].path = <<"a">> /\ deferredExprs[2].path = <<"b">>


-----------------------------------------------------------------------------
(* C30: the batch is frozen when it is submitted *)

\* the setters the queued tasks hold
QueuedSetters ==
    IF impl # "five" THEN {}
    ELSE {step1_resolve[i].deferral.set :
             i \in {j \in 1..Len(step1_resolve) : step1_resolve[j].deferral.k = "some"}}
         \cup
         {step2_discriminate[i].deferral.set :
             i \in {j \in 1..Len(step2_discriminate) :
                       step2_discriminate[j].deferral.k = "some"}}

\* the setter writes into the arrays of the current stage
OfThisStage(setter) ==
    IF setter.k = "slot" THEN setter.i < Len(deferredExprs)
    ELSE setter.c <= Len(containers)

\* the batch has been submitted and the next stage has not started
AfterSubmission ==
    \/ impl = "five" /\ pc \in {"restage", "revalidate", "endIteration"}
    \/ impl = "exec" /\ pc = "restage"

\* what the step that starts the next stage leaves as its batch
StartsNextStage ==
    \/ impl = "five" /\ pc = "endIteration" /\ pc' # "done"
    \/ impl = "exec" /\ pc = "batch" /\ pc' # "done"

\* C30: a batch is frozen at submission: every setter a queued task holds
\* writes into the arrays of the current stage; once the batch is submitted no
\* queued task holds a setter and no step writes the batch until the next
\* stage starts; and the next stage starts with an empty batch
C30_Frozen ==
    [][/\ \A setter \in QueuedSetters' : OfThisStage(setter)'
       /\ AfterSubmission' => QueuedSetters' = {}
       /\ (AfterSubmission /\ ~StartsNextStage)
             => (deferredExprs' = deferredExprs /\ containers' = containers)
       /\ StartsNextStage => (deferredExprs' = <<>> /\ containers' = <<>>)
       /\ (pc = "batch" /\ impl = "five") => QueuedSetters = {}]_vars

\* the second stage of an execution has a batch of its own: one slot, filled
\* after the first batch of two slots was submitted
C30_Witness ==
    /\ impl = "five" /\ pc = "batch" /\ batches = 1
    /\ Len(deferredValues.e) = 2
    /\ Len(deferredExprs) = 1
    /\ restaged # <<>>

\* the same in the scheduler of class Execution
C30_WitnessExecution ==
    /\ impl = "exec" /\ pc = "batch" /\ batches = 1
    /\ Len(deferredExprs) >= 1
    /\ restaged # <<>>


-----------------------------------------------------------------------------
(* Sequences of setData calls on the children that expandChildren returned
   (src/backends/faunadbV10.ts 361-417), for a parent that is an object and one
   that is a list, each with a batch slot of its own *)

\* number of setData calls of one sequence
MaxSetData == 3

SetDataKeys == {"x", "y"}

SetDataValues ==
    {DLit(IntV(1)), DProj(DVar(<<"a">>), "x"), Wrapped(DLit(IntV(2)))}

InitSetData ==
    /\ impl = "none" /\ sc = NoCall /\ pc = "idle"
    /\ step1_resolve = <<>> /\ step2_discriminate = <<>> /\ step3_validate = <<>>
    /\ step4_restage = <<>> /\ step5_revalidate = <<>>
    /\ deferredExprs = << [expr |-> DLit(IntV(0)), path |-> <<"a">>],
                          [expr |-> DLit(ListV(<<>>)), path |-> <<"b">>] >>
    /\ containers = << Container(<<"a">>, DLit(IntV(0)), FALSE, SlotSetter(0)),
                       Container(<<"b">>, DLit(ListV(<<>>)), TRUE, SlotSetter(1)) >>
    /\ deferredValues = Undef /\ completedFields = <<>>
    /\ unvalidatedResult = Undef /\ resultErrors = <<>>
    /\ result = NoResult /\ batches = 0 /\ thrown = "none"
    /\ calls = <<>> /\ restaged = <<>>
    /\ called = [fn |-> "setData"]
    /\ returned = <<>>

\* child.setData(data) of the child for key of the container c; returned
\* keeps the calls made
CallSetData ==
    /\ called.fn = "setData" /\ Len(returned) < MaxSetData
    /\ \E c \in 1..Len(containers), key \in SetDataKeys, data \in SetDataValues :
          /\ containers' = ApplySet(St, ChildSetter(c, key), data).c
          /\ deferredExprs' = ApplySet(St, ChildSetter(c, key), data).d
          /\ returned' = Append(returned, [c |-> c, key |-> key, data |-> data])
    /\ UNCHANGED <<called, impl, sc, pc, step1_resolve, step2_discriminate,
                   step3_validate, step4_restage, step5_revalidate,
                   deferredValues, completedFields, unvalidatedResult,
                   resultErrors, result, batches, thrown, calls, restaged>>

NextSetData == CallSetData

SpecSetData == InitSetData /\ [][NextSetData]_vars

-----------------------------------------------------------------------------
(* C31: the composite of the parent's slot *)

\* the setData calls made for the key of the container
SetDataCalls(c, key) ==
    {i \in 1..Len(returned) : returned[i].c = c /\ returned[i].key = key}

Latest(c, key) ==
    CHOOSE i \in SetDataCalls(c, key) : \A j \in SetDataCalls(c, key) : j <= i

\* the keys of a composite's data and the contribution of one of them
DataKeys(data) == {data[i][1] : i \in 1..Len(data)}
Contribution(data, key) == data[CHOOSE i \in 1..Len(data) : data[i][1] = key][2]

\* C31: after any sequence of setData calls the slot of the parent holds the
\* composite of the parent with, for every key that called setData, the
\* contribution of its latest call, each key once and no other key; a call
\* for one key leaves the other keys' contributions as they were
C31_Composite ==
    called.fn = "setData" =>
        \A c \in 1..Len(containers) :
            (\E key \in SetDataKeys : SetDataCalls(c, key) # {}) =>
                /\ deferredExprs[c].expr
                     = DComp(containers[c].var, containers[c].src,
                             containers[c].list, containers[c].data)
                /\ Len(containers[c].data) = Cardinality(DataKeys(containers[c].data))
                /\ DataKeys(containers[c].data)
                     = {key \in SetDataKeys : SetDataCalls(c, key) # {}}
                /\ \A key \in DataKeys(containers[c].data) :
                      Contribution(containers[c].data, key)
                        = unwrapValue(returned[Latest(c, key)].data)

\* a call for a key of one parent changes nothing of the other parent and
\* nothing of its own other key
C31_OthersKept ==
    [][called.fn = "setData" =>
          \A c \in 1..Len(containers), key \in SetDataKeys :
              (Len(returned') > Len(returned)
                 /\ (returned'[Len(returned')].c # c
                       \/ returned'[Len(returned')].key # key)
                 /\ key \in DataKeys(containers[c].data))
                => /\ key \in DataKeys(containers'[c].data)
                   /\ Contribution(containers'[c].data, key)
                        = Contribution(containers[c].data, key)]_vars

\* y, then x, then x again with another value: the slot holds the second x
C31_Witness ==
    /\ called.fn = "setData" /\ Len(returned) = 3
    /\ returned[1].c = 1 /\ returned[1].key = "y"
    /\ returned[2].c = 1 /\ returned[2].key = "x" /\ returned[2].data = DLit(IntV(1))
    /\ returned[3].c = 1 /\ returned[3].key = "x"
    /\ returned[3].data = Wrapped(DLit(IntV(2)))
    /\ deferredExprs[1].expr.data
         = << <<"y", unwrapValue(returned[1].data)>>, <<"x", DLit(IntV(2))>> >>


-----------------------------------------------------------------------------
\* C32: one batch call at a time, after the drain, with no resolver during it

\* the resolver calls made by the current step
NewCalls == {i \in 1..Len(calls') : i > Len(calls)}

\* the step is a batch call: it starts and returns within the one step,
\* because execute awaits it before doing anything else
IsBatchCall == batches' # batches

\* the resolve, discriminate and validate work of the stage is done
StageDrained ==
    step1_resolve = <<>> /\ step2_discriminate = <<>> /\ step3_validate = <<>>

\* C32: every step makes at most one batch call; a batch call is made
\* only where the resolve, discriminate and validate queues of the stage are
\* empty; no resolver is invoked by the step of a batch call; and every
\* resolver call is made in a step without a batch call, in the stage that
\* follows the batch calls already returned.
C32_OneBatch ==
    [][/\ IsBatchCall =>
            /\ batches' = batches + 1
            /\ pc = "batch"
            /\ StageDrained
            /\ calls' = calls
       /\ \A i \in NewCalls : ~IsBatchCall /\ calls'[i].stage = batches
       /\ SubSeq(calls', 1, Len(calls)) = calls]_vars

\* two batch calls were made, with resolvers invoked before the first and
\* between the first and the second
C32_Witness ==
    /\ batches = 2
    /\ \E i, j \in 1..Len(calls) : calls[i].stage = 0 /\ calls[j].stage = 1


-----------------------------------------------------------------------------
(* Executions over a database that holds one error annotation *)

\* the root field a comes from the batch and its children are projections of
\* it or await it; the annotation takes the place of the value of a, of x or
\* y in the object (or in one object of the list) a, of that object, or of one
\* element of the list of integers a: at is the number of the object or
\* element, and the integer n belongs to the object n % 10
AnnotatedScenarios ==
    {s \in [ta : {IntT, ListT(IntT), ObjT, ListT(ObjT)}, tx : {IntT},
            ra : {"def"}, rb : {"lit", "def"},
            rx : {"proj", "awaitLit"}, ry : {"proj"}, rp : {"proj"},
            nulls : {FALSE}, ops : {1}, root : {TRUE},
            invalid : {{"a"}, {"x"}, {"y"}, {"obj"}}, at : 1..ListLen,
            bad : {[n \in 0..29 |-> IF n % 10 = k THEN BackendError ELSE IntV(n)] :
                      k \in 1..ListLen}] :
        /\ s.bad[s.at] = BackendError
        /\ s.invalid = {"a"} <=> getNamedType(s.ta) = IntT
        /\ ~isListType(s.ta) => s.at = 1
        /\ getNamedType(s.ta) = IntT => s.rx = "proj"}

InitAnnotated ==
    /\ impl \in {"five", "exec"}
    /\ sc \in AnnotatedScenarios
    /\ pc = "setup"
    /\ step1_resolve = <<>>
    /\ step2_discriminate = <<>>
    /\ step3_validate = <<>>
    /\ step4_restage = <<>>
    /\ step5_revalidate = <<>>
    /\ deferredExprs = <<>>
    /\ containers = <<>>
    /\ deferredValues = Undef
    /\ completedFields = <<>>
    /\ unvalidatedResult = Undef
    /\ resultErrors = <<>>
    /\ result = NoResult
    /\ batches = 0
    /\ thrown = "none"
    /\ calls = <<>>
    /\ restaged = <<>>
    /\ called = NoCall
    /\ returned = NoCall

NextAnnotated == Five \/ Exec

SpecAnnotated == InitAnnotated /\ [][NextAnnotated]_vars

-----------------------------------------------------------------------------
(* C33: the error of a backend error annotation *)

\* the children of a are projections of the deferred value
AllProjected == sc.rx = "proj"

AnnotatedField == CHOOSE f \in sc.invalid : TRUE

\* the output path of the annotated value
AnnotatedPath ==
    LET elem == IF isListType(sc.ta) THEN <<IdxKey(sc.at - 1)>> ELSE <<>>
    IN <<"a">> \o elem
         \o (IF AnnotatedField \in {"x", "y"} THEN <<AnnotatedField>> ELSE <<>>)

AnnotatedReturned == Returned /\ thrown = "none" /\ "at" \in DOMAIN sc

\* the annotation is the value of a leaf field
AnnotatedLeaf == AnnotatedField \in {"a", "x", "y"}

\* C33 as stated: the result has an error with the message of the annotation
\* and the output path of the annotated value, and data has null or nothing
\* at that path.
C33_ErrorAtPath ==
    AnnotatedReturned =>
        /\ \E i \in 1..Len(result.errors) :
              /\ result.errors[i].message = "boom"
              /\ result.errors[i].path = AnnotatedPath
        /\ isNullValue(selectPlain(result.data, AnnotatedPath, 0))


\* what holds: the class-based executor records the error of an annotation
\* outside a list at its path and puts null there, and so does the five-queue
\* executor for an annotated object outside a list
C33_OutsideLists ==
    (/\ AnnotatedReturned /\ AllProjected /\ ~isListType(sc.ta)
     /\ impl = "exec" \/ AnnotatedField = "obj") =>
        /\ \E i \in 1..Len(result.errors) :
              /\ result.errors[i].message = "boom"
              /\ result.errors[i].path = AnnotatedPath
        /\ isNullValue(selectPlain(result.data, AnnotatedPath, 0))

\* the five-queue executor has returned for an annotated leaf: the one error
\* at the path of the leaf has the message of the Int serializer, and no error
\* has the message of the annotation
C33_Witness ==
    /\ AnnotatedReturned /\ AllProjected /\ impl = "five" /\ AnnotatedLeaf
    /\ \E i \in 1..Len(result.errors) :
          /\ result.errors[i].path = AnnotatedPath
          /\ result.errors[i].message = "Int cannot represent non-integer value"
    /\ \A i \in 1..Len(result.errors) : result.errors[i].message # "boom"

\* the class-based executor has returned for an annotated element of a list:
\* the error has the index of the element, and data has the next element there
C33_WitnessShifted ==
    /\ AnnotatedReturned /\ impl = "exec" /\ sc.ta = ListT(IntT)
    /\ sc.at = 1
    /\ \E i \in 1..Len(result.errors) :
          /\ result.errors[i].message = "boom"
          /\ result.errors[i].path = <<"a", IdxKey(0)>>
    /\ selectPlain(result.data, <<"a", IdxKey(0)>>, 0) = IntV(2)


-----------------------------------------------------------------------------
(* C34: nothing happens under the path of a recorded error *)

\* the completed pieces the current step adds
NewPieces == {i \in 1..Len(completedFields') : i > Len(completedFields)}

ParentPath(path) == SubSeq(path, 1, Len(path) - 1)

\* an error was recorded, before the current step, at the path or above it
UnderRecordedError(path) ==
    \E i \in 1..Len(resultErrors) :
        /\ Len(resultErrors[i].path) <= Len(path)
        /\ SubSeq(path, 1, Len(resultErrors[i].path)) = resultErrors[i].path

-----------------------------------------------------------------------------
(* C35: the pairs of a deferred list of abstract type *)

\* the completed pieces for a field of an element of the list a
ElementPieces ==
    {i \in 1..Len(completedFields) :
        /\ Len(completedFields[i].path) = 3
        /\ completedFields[i].path[1] = "a"
        /\ IsIdx(completedFields[i].path[2])}

\* the concrete type of the element the piece belongs to
KindOfPiece(i) == sc.kinds[IdxOf(completedFields[i].path[2]) + 1]

\* C35: for a deferred list of abstract type, no (path, value) pair becomes a
\* completed piece for a response key that the __typename of its element does
\* not select.
C35_ElementsExcluded ==
    isListType(sc.ta) =>
        \A i \in ElementPieces :
            completedFields[i].path[3] \in SelectedFor(KindOfPiece(i))

\* the list [Foo, Hello] was expanded for the field foo: the pair for the key
\* foo of the Hello element was emitted, with the value undefined
C35_Witness ==
    /\ sc.ta = ListT(FooHelloT) /\ ~sc.nulls
    /\ sc.kinds[1] = "Foo" /\ sc.kinds[2] = "Hello"
    /\ \E i \in ElementPieces :
          /\ completedFields[i].path = <<"a", IdxKey(1), "foo">>
          /\ completedFields[i].value = Undef

\* outside a list the predicate is called with the deferred path from the batch
\* root and excludes: the pieces of a single value of abstract type are those
\* of the keys its __typename selects
C35_SingleExcluded ==
    ~isListType(sc.ta) =>
        \A i \in 1..Len(completedFields) :
            (Len(completedFields[i].path) = 2 /\ completedFields[i].path[1] = "a")
                => completedFields[i].path[2] \in SelectedFor(sc.kinds[1])

C35_WitnessSingle ==
    /\ ~isListType(sc.ta) /\ sc.kinds[1] = "Hello" /\ pc = "done"
    /\ \E i \in 1..Len(completedFields) :
          completedFields[i].path = <<"a", "hello">>


-----------------------------------------------------------------------------
(* C36: the paths of errors and of completed pieces *)

HasPlaceholder(path) == \E i \in 1..Len(path) : path[i] = LIST_PLACEHOLDER

\* C36: no recorded error and no completed piece has a path with the list
\* placeholder, and the paths of the errors of the result are made of field
\* keys and real list indices.
C36_RealPaths ==
    /\ \A i \in 1..Len(resultErrors) : ~HasPlaceholder(resultErrors[i].path)
    /\ \A i \in 1..Len(completedFields) : ~HasPlaceholder(completedFields[i].path)
    /\ (Returned /\ result.hasData) =>
          \A i \in 1..Len(result.errors) : ~HasPlaceholder(result.errors[i].path)

\* the resolver of x has thrown under the deferred list a, and the result has
\* its error with the placeholder in the path
C36_Witness ==
    /\ Returned /\ thrown = "none"
    /\ sc.ra = "def" /\ sc.rx = "throw" /\ sc.ta = ListT(ObjT)
    /\ \E i \in 1..Len(calls) :
          /\ calls[i].path = <<"a", LIST_PLACEHOLDER, "x">>
          /\ calls[i].ret = "throw"
    /\ \E i \in 1..Len(result.errors) :
          /\ result.errors[i].path = <<"a", LIST_PLACEHOLDER, "x">>
          /\ result.errors[i].message = "bar"

\* what holds: no completed piece of the five-queue executor has the
\* placeholder in its path
C36_PiecesReal ==
    \A i \in 1..Len(completedFields) : ~HasPlaceholder(completedFields[i].path)

C36_WitnessPieces ==
    \E i \in 1..Len(completedFields) :
        /\ Len(completedFields[i].path) = 3
        /\ IsIdx(completedFields[i].path[2])


-----------------------------------------------------------------------------
(* C37: no field of the selection is dropped *)

\* an error of the result has the path, or a path above it, with a
\* placeholder standing for any index
ErrorAtOrAbove(path) ==
    \E i \in 1..Len(result.errors) :
        /\ Len(result.errors[i].path) <= Len(path)
        /\ \A j \in 1..Len(result.errors[i].path) :
               equivalentPathKey(result.errors[i].path[j], path[j])

DataAt(path) == selectPlain(result.data, path, 0)

\* the paths of the objects of data that the field at path holds: the object
\* itself, or the objects of the list
DataObjectsAt(path) ==
    IF DataAt(path).k = "obj" THEN {path}
    ELSE IF DataAt(path).k = "list"
    THEN {Append(path, IdxKey(i - 1)) : i \in {j \in 1..Len(DataAt(path).e) :
                                                 DataAt(path).e[j].k = "obj"}}
    ELSE {}

\* the key is in the object at path, or an error says why it is not
\* the resolver of the field has thrown an error that has a path of its own
OwnPathError(key) ==
    \E i \in 1..Len(result.errors) :
        result.errors[i].loc = key /\ result.errors[i].path = <<"custom">>

Accounted(path, key) ==
    \/ HasKey(DataAt(path), key)
    \/ ErrorAtOrAbove(Append(path, key))
    \/ OwnPathError(key)

SelectedKeys(field) == {SelectionOf(field)[i] : i \in 1..Len(SelectionOf(field))}

\* C37 (at the end of the execution): every selected response key of every
\* object of data is present in the object, or an error is recorded at or
\* above its path.
C37_NoFieldDropped ==
    (Returned /\ result.hasData /\ result.data.k = "obj") =>
        /\ \A key \in {"a", "b"} : Accounted(<<>>, key)
        /\ \A o \in DataObjectsAt(<<"a">>) :
              /\ \A key \in SelectedKeys("a") : Accounted(o, key)
              /\ \A s \in DataObjectsAt(Append(o, "x")) :
                    \A key \in SelectedKeys("x") : Accounted(s, key)


\* C37 as stated: every selected response key of every object of data is
\* present in the object.
C37_KeysPresent ==
    (Returned /\ result.hasData /\ result.data.k = "obj") =>
        /\ \A key \in {"a", "b"} : HasKey(result.data, key)
        /\ \A o \in DataObjectsAt(<<"a">>) :
              /\ \A key \in SelectedKeys("a") : HasKey(DataAt(o), key)
              /\ \A s \in DataObjectsAt(Append(o, "x")) :
                    \A key \in SelectedKeys("x") : HasKey(DataAt(s), key)

\* the five-queue executor has returned after the resolver of b threw: the
\* error is recorded at b and data, an object, has no key b
C37_Witness ==
    /\ Returned /\ impl = "five" /\ sc.rb = "throw"
    /\ result.hasData /\ result.data.k = "obj"
    /\ \E i \in 1..Len(calls) : calls[i].path = <<"b">> /\ calls[i].ret = "throw"
    /\ ErrorAtOrAbove(<<"b">>)
    /\ ~HasKey(result.data, "b")


-----------------------------------------------------------------------------
(* The resolve stage of the class-based executor, one promise at a time *)

\* execute() starts the resolvers of every field of #step1_resolve and
\* awaits them together (executor.ts:350-372); a field whose value is a
\* deferred composite starts and awaits the resolvers of its children in the
\* same way (executor.ts:915-940). A task is one such #resolveObjectField
\* call: an entry of #step1_resolve, the setData its parent handed it when it
\* is a child, and the value it settled with once it has
TaskSetter(f) == IF "setter" \in DOMAIN f THEN f.setter ELSE NoSetter
TaskSettled(f) == "value" \in DOMAIN f
TaskTop(f) == "setter" \notin DOMAIN f
TaskPath(f) == Append(f.parentPath, fieldNodeKey(f.fieldNodes[f.fieldNodeIndex]))

\* the resolvers of the tasks are invoked in array order, before any settles
InvokedCalls(tasks) ==
    LET known == SelectSeq(tasks, LAMBDA f :
                     f.fieldNodes[f.fieldNodeIndex] \in FieldsOf(f.parentType))
    IN [i \in 1..Len(known) |->
           CallRecord(TaskPath(known[i]), wrapSourceValue(known[i].sourceValue),
                      ResolveField(known[i].fieldNodes[known[i].fieldNodeIndex],
                                   wrapSourceValue(known[i].sourceValue)))]

\* the #resolveObjectField calls of executor.ts:924-938, one per child
ChildTasks(c, sourceValue, objectType, fieldNodes, childPath) ==
    [i \in 1..Len(fieldNodes) |->
        [sourceValue |-> sourceValue, parentType |-> objectType,
         fieldNodes |-> fieldNodes, fieldNodeIndex |-> i, parentPath |-> childPath,
         setter |-> ChildSetter(c, fieldNodeKey(fieldNodes[i]))]]

\* #handleResolvedValue (executor.ts:860-943) up to the Promise.all of the
\* children, which become tasks of their own; a value that is not deferred
\* is handled as in handleResolvedValue
settleResolvedValue(es, resolvedValue, valueType, f, path, setDeferredChild) ==
    LET fieldNode == f.fieldNodes[f.fieldNodeIndex]
        index == Len(es.d)
        es1 == IF setDeferredChild.k # "none"
               THEN ApplySet(es, setDeferredChild, resolvedValue)
               ELSE [es EXCEPT !.d = Append(@, [expr |-> resolvedValue, path |-> path])]
        setter == IF setDeferredChild.k # "none" THEN setDeferredChild
                  ELSE SlotSetter(index)
        c == Len(es1.c) + 1
        es2 == [es1 EXCEPT !.c = Append(@, TypedContainer(path, resolvedValue,
                                                          valueType, setter))]
    IN IF ~isDeferredValue(resolvedValue)
       THEN [children |-> <<>>] @@
            handleResolvedValue(es, resolvedValue, valueType, f.fieldNodes,
                                f.fieldNodeIndex, f.parentType, path, setDeferredChild)
       ELSE IF ~isCompositeOutputType(valueType)
       THEN [es |-> es1, v |-> Undef, children |-> <<>>]
       ELSE [es |-> es2, v |-> Null,
             children |-> ChildTasks(c, DVar(path), getNamedType(valueType).n,
                                     SelectionOf(fieldNode),
                                     expandChildrenPath(path, valueType))]

\* setResult of executor.ts:814-816 and 828-831 on what #handleResolvedValue
\* returned
SetResult(h, index) ==
    [es |-> [h.es EXCEPT !.d[index + 1].expr = h.v], v |-> Null,
     children |-> h.children]

\* #resolveObjectField (executor.ts:782-858) from the moment the resolver of
\* the task f settles
settleObjectField(es, f) ==
    LET fieldNode == f.fieldNodes[f.fieldNodeIndex]
        fieldPath == TaskPath(f)
        r == ResolveField(fieldNode, wrapSourceValue(f.sourceValue))
        resolvedValue == unwrapValue(r.v)
        literalChild == TaskSetter(f).k # "none" /\ ~isDeferredValue(resolvedValue)
        index == Len(es.d)
        es1 == IF literalChild
               THEN [es EXCEPT !.d = Append(@, [expr |-> Null, path |-> fieldPath])]
               ELSE es
        failed(e) ==
            [es |-> [es EXCEPT !.errs = Append(@, CaughtError(e, fieldNode, fieldPath))],
             v |-> Null, children |-> <<>>]
    IN IF fieldNode \notin FieldsOf(f.parentType)
       THEN failed(Thrown(FALSE, "Cannot read properties of undefined", <<>>))
       ELSE CASE r.k = "ok" ->
                   IF literalChild
                   THEN SetResult(settleResolvedValue(es1, resolvedValue,
                                      FieldType(fieldNode), f, fieldPath, TaskSetter(f)),
                                  index)
                   ELSE settleResolvedValue(es, resolvedValue, FieldType(fieldNode),
                                            f, fieldPath, TaskSetter(f))
              [] r.k = "throw" -> failed(Thrown(r.gql, r.m, r.path))
              [] OTHER ->
                   [es |-> [es EXCEPT
                              !.s3 = Append(@, [fieldNodes |-> f.fieldNodes,
                                                fieldNodeIndex |-> f.fieldNodeIndex,
                                                parentType |-> f.parentType,
                                                parentPath |-> f.parentPath]),
                              !.restaged = Append(@, fieldPath)],
                    v |-> Null, children |-> <<>>]

\* a deferred root field a whose children, and the children of x when it is
\* an object (under an object a), return a literal, project the parent,
\* await it or throw
ConcurrentScenarios ==
    {s \in [ta : {IntT, ObjT, ListT(ObjT)}, tx : {IntT, SubT},
            ra : {"def"}, rb : {"lit", "def", "throw"},
            rx : {"lit", "proj", "awaitDef", "throw"},
            ry : {"lit", "proj", "awaitDef"},
            rp : {"lit", "proj"},
            nulls : BOOLEAN, ops : {1}, root : {TRUE}] :
        /\ s.ta = IntT => s.tx = IntT /\ s.rx = "proj" /\ s.ry = "proj"
        /\ s.tx = SubT => s.rx \in {"proj", "awaitDef"}
        /\ s.tx = IntT => s.rp = "proj"
        /\ isListType(s.ta) => s.tx = IntT
        /\ s.nulls => isListType(s.ta)}

InitConcurrent ==
    /\ impl = "exec"
    /\ sc \in ConcurrentScenarios
    /\ pc = "setup"
    /\ step1_resolve = <<>>
    /\ step2_discriminate = <<>>
    /\ step3_validate = <<>>
    /\ step4_restage = <<>>
    /\ step5_revalidate = <<>>
    /\ deferredExprs = <<>>
    /\ containers = <<>>
    /\ deferredValues = Undef
    /\ completedFields = <<>>
    /\ unvalidatedResult = Undef
    /\ resultErrors = <<>>
    /\ result = NoResult
    /\ batches = 0
    /\ thrown = "none"
    /\ calls = <<>>
    /\ restaged = <<>>
    /\ called = NoCall
    /\ returned = NoCall

\* executor.ts:351-368: every resolver of the stage is invoked
ConcInvoke ==
    /\ impl = "exec" /\ pc = "resolve"
    /\ pc' = "settle"
    /\ calls' = calls \o InvokedCalls(step1_resolve)
    /\ UNCHANGED <<called, returned, impl, sc, step1_resolve, step2_discriminate,
                   step3_validate, step4_restage, step5_revalidate, deferredExprs,
                   containers, deferredValues, completedFields, unvalidatedResult,
                   resultErrors, result, batches, thrown, restaged>>

\* the task i settled with r
SettledWith(i, r) ==
    /\ step1_resolve' = [step1_resolve EXCEPT ![i] = [value |-> r.v] @@ @] \o r.children
    /\ containers' = r.es.c
    /\ deferredExprs' = r.es.d
    /\ step4_restage' = r.es.s3
    /\ resultErrors' = r.es.errs
    /\ restaged' = r.es.restaged
    /\ calls' = calls \o InvokedCalls(r.children)

\* the resolver of any one pending task settles
ConcSettle ==
    /\ impl = "exec" /\ pc = "settle"
    /\ \E i \in 1..Len(step1_resolve) :
          /\ ~TaskSettled(step1_resolve[i])
          /\ SettledWith(i, settleObjectField(ExecState, step1_resolve[i]))
    /\ UNCHANGED <<called, returned, impl, sc, pc, step2_discriminate, step3_validate,
                   step5_revalidate, deferredValues, completedFields,
                   unvalidatedResult, result, batches, thrown>>

\* the [path, value] pairs of the fields of #step1_resolve, in its order
TopPieces(tasks) ==
    LET top == SelectSeq(tasks, TaskTop)
    IN [i \in 1..Len(top) |-> [path |-> TaskPath(top[i]), value |-> top[i].value]]

\* Promise.all has settled: executor.ts:369-372 and the test of line 374
ConcFinish ==
    /\ impl = "exec" /\ pc = "settle"
    /\ \A i \in 1..Len(step1_resolve) : TaskSettled(step1_resolve[i])
    /\ step1_resolve' = <<>>
    /\ IF SetPieces(unvalidatedResult, TopPieces(step1_resolve), 1).ok
       THEN /\ unvalidatedResult' =
                   SetPieces(unvalidatedResult, TopPieces(step1_resolve), 1).v
            /\ pc' = IF deferredExprs # <<>> THEN "batch"
                     ELSE AfterEvaluate(step4_restage, <<>>)
            /\ UNCHANGED result
       ELSE /\ result' = CaughtResult(OuterCatch(PlainError(
                             SetPieces(unvalidatedResult, TopPieces(step1_resolve), 1).message)))
            /\ pc' = "done"
            /\ UNCHANGED unvalidatedResult
    /\ UNCHANGED <<called, returned, impl, sc, step2_discriminate, step3_validate,
                   step4_restage, step5_revalidate, deferredExprs, containers,
                   deferredValues, completedFields, resultErrors, batches, thrown,
                   calls, restaged>>

NextConcurrent ==
    \/ ExecSetup \/ ConcInvoke \/ ConcSettle \/ ConcFinish
    \/ ExecEvaluate \/ ExecRestage \/ ExecGetResult

SpecConcurrent == InitConcurrent /\ [][NextConcurrent]_vars


-----------------------------------------------------------------------------
(* C38: the evaluation list under concurrent resolvers *)

\* the entry i of the evaluation list holds a deferred value and the entry j
\* lies below it in the response
EntryBelow(entries, i, j) ==
    /\ i # j
    /\ isDeferredValue(entries[i].expr)
    /\ IsPrefix(entries[i].path, entries[j].path)
    /\ entries[i].path # entries[j].path

\* the entries that hold a literal value: the fields under a deferred parent
\* whose resolver returned one
LiteralEntries(entries) ==
    {j \in 1..Len(entries) : ~isDeferredValue(entries[j].expr)}

\* the objects of root that the entry j is a field of
EntryParents(root, entries, j) ==
    ObjectsAt(root, SubSeq(entries[j].path, 1, Len(entries[j].path) - 1), 1)

EntryKey(entries, j) == entries[j].path[Len(entries[j].path)]

\* C38: in the class-based executor, whatever the order in which the
\* resolvers of a stage settle, the entry of a deferred ancestor stands in the
\* evaluation list before the entries of its descendants, and once the
\* evaluate stage has applied the list in order every literal child value
\* stands in each materialized parent object
C38_AncestorFirst ==
    [][/\ \A i, j \in 1..Len(deferredExprs') :
              EntryBelow(deferredExprs', i, j) => i < j
       /\ (impl = "exec" /\ pc = "batch" /\ pc' # "done") =>
              \A j \in LiteralEntries(deferredExprs) :
                 \A o \in EntryParents(unvalidatedResult', deferredExprs, j) :
                    At(o, EntryKey(deferredExprs, j)) = deferredExprs[j].expr]_vars

\* b settled before the child x of a did (both threw, b first), the child y
\* of a returned a literal under its deferred parent, and the batch has been
\* applied: the literal stands in the materialized a
C38_Witness ==
    /\ impl = "exec" /\ batches = 1 /\ thrown = "none" /\ pc \in {"getResult", "done"}
    /\ sc.ry = "lit" /\ sc.ta = ObjT
    /\ Len(resultErrors) >= 2
    /\ resultErrors[1].path = <<"b">>
    /\ resultErrors[2].path = <<"a", "x">>
    /\ At(unvalidatedResult, "a").k = "obj"
    /\ At(At(unvalidatedResult, "a"), "y") = LitOf("y")


-----------------------------------------------------------------------------
(* C39: how often an awaiting resolver is invoked *)

\* the path q of a later invocation is the path p with list indices in the
\* place of its placeholders
PathMatches(p, q) ==
    /\ Len(p) = Len(q)
    /\ \A k \in 1..Len(p) : p[k] = q[k] \/ (p[k] = LIST_PLACEHOLDER /\ IsIdx(q[k]))

\* the paths of the values of v, none of them null, that the path p leads to
\* from position k on
RECURSIVE ConcretePaths(_, _, _, _)
ConcretePaths(v, p, k, acc) ==
    IF isNullValue(v) THEN {}
    ELSE IF k > Len(p) THEN {acc}
    ELSE IF p[k] = LIST_PLACEHOLDER
    THEN IF v.k # "list" THEN {}
         ELSE UNION {ConcretePaths(v.e[j], p, k + 1, Append(acc, IdxKey(j - 1))) :
                        j \in 1..Len(v.e)}
    ELSE ConcretePaths(At(v, p[k]), p, k + 1, Append(acc, p[k]))

\* the invocations, one stage later, of the resolver that invocation i ran
LaterCalls(i) ==
    {j \in CallIdx : /\ PathMatches(calls[i].path, calls[j].path)
                     /\ calls[j].stage = calls[i].stage + 1}

\* C39: a resolver that awaits its wrapped source is invoked once while its
\* parent is deferred, then once for every parent value the batch
\* materialized that is not null (so never when the parent is null), and no
\* invocation after a batch has a null source
C39_OncePerParent ==
    /\ \A j \in CallIdx : calls[j].stage >= 1 => ~isNullValue(calls[j].source)
    /\ (pc = "done" /\ result.hasData /\ result.errors = <<>>) =>
          \A i \in CallIdx : calls[i].ret = "next" =>
             /\ \A k \in CallIdx :
                   (calls[k].path = calls[i].path /\ calls[k].stage = calls[i].stage)
                      => k = i
             /\ Cardinality(LaterCalls(i)) =
                   Cardinality(ConcretePaths(result.data, PathPrev(calls[i].path),
                                             1, <<>>))

\* the five-queue executor keeps to it
C39_FiveOncePerParent == impl = "five" => C39_OncePerParent

\* the class-based executor has invoked, after the batch, the resolver of a
\* field that awaited its source under a deferred list, on the element of the
\* list that is null
C39_Witness ==
    /\ impl = "exec" /\ pc = "done" /\ result.hasData /\ result.errors = <<>>
    /\ \E i, j \in CallIdx :
          /\ calls[i].ret = "next" /\ isWrappedValue(calls[i].source)
          /\ j \in LaterCalls(i)
          /\ calls[j].source = Null
          /\ Cardinality(LaterCalls(i)) = ListLen
          /\ Cardinality(ConcretePaths(result.data, PathPrev(calls[i].path), 1, <<>>))
                = ListLen - 1

\* the five-queue executor has invoked the resolver of such a field once
\* under the deferred list and once for the one element that is not null
C39_WitnessFive ==
    /\ impl = "five" /\ pc = "done" /\ result.hasData /\ result.errors = <<>>
    /\ sc.nulls
    /\ \E i \in CallIdx :
          /\ calls[i].ret = "next" /\ isWrappedValue(calls[i].source)
          /\ Cardinality(LaterCalls(i)) = ListLen - 1


-----------------------------------------------------------------------------
(* findImplementors and its cache *)

\* a schema is its type map, in order: some of the types of the selection
\* schema and of the abstract-type schema, each with the interfaces it
\* implements
MaxSchemaTypes == 3

SchemaTypes == {"Foo", "Hello", "Dog", "Greeting", "Pet", "Node"}

InterfaceTypes == {"Greeting", "Pet", "Node"}

SchemaTypeMaps ==
    {s \in SeqsUpTo(SchemaTypes, MaxSchemaTypes) :
        /\ \A i, j \in 1..Len(s) : s[i] = s[j] => i = j
        /\ \A i \in 1..Len(s) : \A k \in 1..Len(getInterfaces(s[i])) :
              Includes(s, getInterfaces(s[i])[k])}

\* new WeakMap(): no interface has an entry
EmptyCache == [iface \in {} |-> <<>>]

\* the loop of findImplementors over schema.getTypeMap() (utils.ts:10-19)
implementors(schema, iface) ==
    SelectSeq(schema, LAMBDA type :
        type \notin InterfaceTypes /\ Includes(getInterfaces(type), iface))

\* findImplementors(schema, iface, cache) (utils.ts:5-26): what it returns
\* and the cache it leaves
findImplementorsIn(schema, iface, cache) ==
    IF iface \in DOMAIN cache
    THEN [value |-> cache[iface], cache |-> cache]
    ELSE [value |-> implementors(schema, iface),
          cache |-> [i \in DOMAIN cache \cup {iface} |->
                        IF i = iface THEN implementors(schema, iface) ELSE cache[i]]]

\* the module-level WeakMap of utils.ts:3, as the last call left it
implementorsCache == returned.cache

InitImplementors ==
    /\ impl = "none" /\ sc = NoCall /\ pc = "idle"
    /\ step1_resolve = <<>> /\ step2_discriminate = <<>> /\ step3_validate = <<>>
    /\ step4_restage = <<>> /\ step5_revalidate = <<>>
    /\ deferredExprs = <<>> /\ containers = <<>>
    /\ deferredValues = Undef /\ completedFields = <<>>
    /\ unvalidatedResult = Undef /\ resultErrors = <<>>
    /\ result = NoResult /\ batches = 0 /\ thrown = "none"
    /\ calls = <<>> /\ restaged = <<>>
    /\ called = [fn |-> "findImplementors", n |-> 0]
    /\ returned = [fn |-> "findImplementors", cache |-> EmptyCache]

\* findImplementors(schema, iface) with the default cache
CallFindImplementors ==
    /\ called.fn = "findImplementors"
    /\ \E schema \in SchemaTypeMaps, iface \in InterfaceTypes :
          /\ called' = [fn |-> "findImplementors", n |-> 1, schema |-> schema,
                        iface |-> iface,
                        cached |-> iface \in DOMAIN implementorsCache]
          /\ returned' = [fn |-> "findImplementors"] @@
                         findImplementorsIn(schema, iface, implementorsCache)
    /\ UNCHANGED <<impl, sc, pc, step1_resolve, step2_discriminate,
                   step3_validate, step4_restage, step5_revalidate, deferredExprs,
                   containers, deferredValues, completedFields, unvalidatedResult,
                   resultErrors, result, batches, thrown, calls, restaged>>

NextImplementors == CallFindImplementors

SpecImplementors == InitImplementors /\ [][NextImplementors]_vars

-----------------------------------------------------------------------------
(* C40: what findImplementors returns *)

FindImplementorsReturned == called.fn = "findImplementors" /\ called.n = 1

\* C40: every call of findImplementors with the default cache returns the
\* object types of the schema of that call that implement the interface, in
\* the order of the type map
C40_ExactImplementors ==
    FindImplementorsReturned =>
        returned.value = implementors(called.schema, called.iface)

\* a call for an interface that has no entry in the cache returns them, and
\* a call never changes the entry of an interface that has one
C40_FirstCallExact ==
    /\ (FindImplementorsReturned /\ ~called.cached) =>
          returned.value = implementors(called.schema, called.iface)
    /\ FindImplementorsReturned =>
          /\ called.iface \in DOMAIN implementorsCache
          /\ returned.value = implementorsCache[called.iface]

\* the schema of the call has Foo as its one implementor of Greeting and
\* the call returned Foo and Hello, the implementors in the schema of an
\* earlier call
C40_Witness ==
    /\ FindImplementorsReturned /\ called.cached
    /\ called.iface = "Greeting"
    /\ called.schema = <<"Greeting", "Foo">>
    /\ returned.value = <<"Foo", "Hello">>

\* a first call, for a schema with two implementors
C40_WitnessFirst ==
    /\ FindImplementorsReturned /\ ~called.cached
    /\ called.iface = "Greeting"
    /\ returned.value = <<"Foo", "Hello">>

====
